---- MODULE Spec2Model ----
(***************************************************************************)
(* Model of the futures scanner: the scan route (GET, evaluateSymbol and   *)
(* the scoring helpers of src/src/app/api/scan/route.ts), the market-data  *)
(* client (src/unnamed/part_000) and the indicator library                 *)
(* (src/unnamed/part_001).                                                 *)
(*                                                                         *)
(* One action is one event-loop task: the settlement of a network fetch    *)
(* (or of the Promise.all that waits for it) together with every           *)
(* synchronous continuation and microtask it triggers.                     *)
(*                                                                         *)
(* JavaScript numbers are modelled as fixed-point values with four         *)
(* decimals (Scale units per 1.0) plus the three non-finite classes NaN,   *)
(* +Infinity and -Infinity.  Volumes are whole units.                      *)
(***************************************************************************)
EXTENDS Integers, Sequences, FiniteSets, TLC

(***************************************************************************)
(* JavaScript numbers                                                      *)
(***************************************************************************)
Scale == 10 * 10 * 10 * 10

Num(v) == [c |-> "fin", v |-> v]
NaN == [c |-> "nan", v |-> 0]
Infinity == [c |-> "inf", v |-> 1]
NegInfinity == [c |-> "inf", v |-> -1]
Zero == Num(0)
\* the decimal literal i.f (four fractional digits f)
Fx(i, f) == Num(i * Scale + f)
Whole(i) == Num(i * Scale)

AbsInt(x) == IF x < 0 THEN -x ELSE x
SignInt(x) == IF x < 0 THEN -1 ELSE IF x > 0 THEN 1 ELSE 0
\* integer quotient truncated toward zero
Quot(a, b) == SignInt(a) * SignInt(b) * (AbsInt(a) \div AbsInt(b))
\* integer quotient rounded to nearest
QuotRound(a, b) == SignInt(a) * SignInt(b) * ((AbsInt(a) + AbsInt(b) \div 2) \div AbsInt(b))

IsNaN(a) == a.c = "nan"
IsInf(a) == a.c = "inf"
IsFinite(a) == a.c = "fin"

Neg(a) == IF IsNaN(a) THEN NaN ELSE [c |-> a.c, v |-> -a.v]

Add(a, b) ==
  IF IsNaN(a) \/ IsNaN(b) THEN NaN
  ELSE IF IsInf(a) /\ IsInf(b) THEN (IF a.v = b.v THEN a ELSE NaN)
  ELSE IF IsInf(a) THEN a
  ELSE IF IsInf(b) THEN b
  ELSE Num(a.v + b.v)

Sub(a, b) == Add(a, Neg(b))

\* a * k for an integer literal k
MulK(a, k) ==
  IF IsNaN(a) THEN NaN
  ELSE IF IsInf(a) THEN (IF k = 0 THEN NaN ELSE [c |-> "inf", v |-> a.v * SignInt(k)])
  ELSE Num(a.v * k)

\* |a| * |b| / Scale for naturals, rounded, without an intermediate above 2^31
MulScaled(a, b) ==
  LET ah == a \div Scale
      al == a % Scale
      bh == b \div Scale
      bl == b % Scale
  IN ah * bh * Scale + ah * bl + al * bh + (al * bl + Scale \div 2) \div Scale

RECURSIVE LongDiv(_, _, _, _)
\* the quotient digits of r / c after the point, `digits` of them, appended to q
LongDiv(q, r, c, digits) ==
  IF digits = 0 THEN (IF 2 * r >= c THEN q + 1 ELSE q)
  ELSE LongDiv(q * 10 + (r * 10) \div c, (r * 10) % c, c, digits - 1)
\* |a| * Scale / |c| for naturals, rounded, without an intermediate above 2^31
DivScaled(a, c) == LongDiv(a \div c, a % c, c, 4)

\* a * b for two fixed-point numbers
Times(a, b) ==
  IF IsNaN(a) \/ IsNaN(b) THEN NaN
  ELSE IF IsInf(a) \/ IsInf(b) THEN
    (IF SignInt(a.v) * SignInt(b.v) = 0 THEN NaN
     ELSE [c |-> "inf", v |-> SignInt(a.v) * SignInt(b.v)])
  ELSE Num(SignInt(a.v) * SignInt(b.v) * MulScaled(AbsInt(a.v), AbsInt(b.v)))

\* a / b for two numbers of the same unit, the result fixed-point
Over(a, b) ==
  IF IsNaN(a) \/ IsNaN(b) THEN NaN
  ELSE IF IsInf(a) /\ IsInf(b) THEN NaN
  ELSE IF IsInf(a) THEN [c |-> "inf", v |-> a.v * (IF b.v < 0 THEN -1 ELSE 1)]
  ELSE IF IsInf(b) THEN Zero
  ELSE IF b.v = 0 THEN
    (IF a.v = 0 THEN NaN ELSE [c |-> "inf", v |-> SignInt(a.v)])
  ELSE Num(SignInt(a.v) * SignInt(b.v) * DivScaled(AbsInt(a.v), AbsInt(b.v)))

\* a / n for an integer n (a length, a period)
DivK(a, n) ==
  IF IsNaN(a) THEN NaN
  ELSE IF IsInf(a) THEN a
  ELSE Num(QuotRound(a.v, n))

\* the comparison operators: false as soon as one side is NaN
Lt(a, b) ==
  /\ ~IsNaN(a) /\ ~IsNaN(b)
  /\ IF IsInf(a) /\ IsInf(b) THEN a.v < b.v
     ELSE IF IsInf(a) THEN a.v < 0
     ELSE IF IsInf(b) THEN b.v > 0
     ELSE a.v < b.v
Gt(a, b) == Lt(b, a)
StrictEq(a, b) == ~IsNaN(a) /\ ~IsNaN(b) /\ a = b
Le(a, b) == Lt(a, b) \/ StrictEq(a, b)
Ge(a, b) == Le(b, a)

MathMin(a, b) == IF IsNaN(a) \/ IsNaN(b) THEN NaN ELSE IF Lt(b, a) THEN b ELSE a
MathMax(a, b) == IF IsNaN(a) \/ IsNaN(b) THEN NaN ELSE IF Gt(b, a) THEN b ELSE a
MathAbs(a) == IF IsNaN(a) THEN NaN ELSE [c |-> a.c, v |-> AbsInt(a.v)]
MathSign(a) == IF IsNaN(a) THEN NaN ELSE Whole(SignInt(a.v))

RECURSIVE IsqrtFrom(_, _, _)
IsqrtFrom(n, lo, hi) ==
  IF lo >= hi THEN lo
  ELSE LET mid == (lo + hi + 1) \div 2
       IN IF mid * mid <= n THEN IsqrtFrom(n, mid, hi) ELSE IsqrtFrom(n, lo, mid - 1)
\* floor of the square root of a natural number below 2^31
Isqrt(n) == IsqrtFrom(n, 0, 46340)

\* Math.sqrt of a small whole number (a length), fixed-point
MathSqrtOfLength(n) == Num(Isqrt(n * 1000000) * (Scale \div 1000))

\* Number(x.toFixed(d)) for d <= 4 decimals
ToFixed(a, d) ==
  IF ~IsFinite(a) THEN a
  ELSE LET unit == IF d = 0 THEN Scale ELSE IF d = 1 THEN Scale \div 10
                   ELSE IF d = 2 THEN Scale \div 100 ELSE IF d = 3 THEN Scale \div 1000
                   ELSE 1
       IN Num(QuotRound(a.v, unit) * unit)

(***************************************************************************)
(* JSON values as the provider sends them, and Number(x)                   *)
(***************************************************************************)
Str(v) == [j |-> "numeric", v |-> v]
Text == [j |-> "text", v |-> 0]
Undefined == [j |-> "undefined", v |-> 0]
Null == [j |-> "null", v |-> 0]

ToNumber(x) ==
  IF x.j = "numeric" THEN Num(x.v)
  ELSE IF x.j = "null" THEN Zero
  ELSE NaN

(***************************************************************************)
(* Array helpers                                                           *)
(***************************************************************************)
\* values.slice(-n)
LastN(s, n) == IF Len(s) <= n THEN s ELSE SubSeq(s, Len(s) - n + 1, Len(s))
\* values.slice(0, n)
FirstN(s, n) == IF Len(s) <= n THEN s ELSE SubSeq(s, 1, n)
Last(s) == s[Len(s)]
\* the array whose elements f[1], ..., f[Len(f)] are computed once
ArrayOf(f) == SubSeq(f, 1, Len(f))

\* Sums, maxima and minima split their range in halves: in fixed-point arithmetic
\* the result is that of the left-to-right loop.
RECURSIVE SumRange(_, _, _)
SumRange(s, lo, hi) ==
  IF lo > hi THEN Zero
  ELSE IF lo = hi THEN s[lo]
  ELSE LET mid == (lo + hi) \div 2
       IN Add(SumRange(s, lo, mid), SumRange(s, mid + 1, hi))
\* values.reduce((acc, val) => acc + val, 0)
SumSeq(s) == SumRange(s, 1, Len(s))

RECURSIVE MaxRange(_, _, _)
MaxRange(s, lo, hi) ==
  IF lo > hi THEN NegInfinity
  ELSE IF lo = hi THEN MathMax(NegInfinity, s[lo])
  ELSE LET mid == (lo + hi) \div 2
       IN MathMax(MaxRange(s, lo, mid), MaxRange(s, mid + 1, hi))
\* Math.max(...values): -Infinity for no argument
MaxSeq(s) == MaxRange(s, 1, Len(s))

RECURSIVE MinRange(_, _, _)
MinRange(s, lo, hi) ==
  IF lo > hi THEN Infinity
  ELSE IF lo = hi THEN MathMin(Infinity, s[lo])
  ELSE LET mid == (lo + hi) \div 2
       IN MathMin(MinRange(s, lo, mid), MinRange(s, mid + 1, hi))
\* Math.min(...values): +Infinity for no argument
MinSeq(s) == MinRange(s, 1, Len(s))

(***************************************************************************)
(* Indicator library (src/unnamed/part_001)                                *)
(***************************************************************************)
RECURSIVE EmaLoop(_, _, _)
\* the loop of ema: prevEma = current * k + prevEma * (1 - k), k = 2 / (period + 1),
\* computed as (2 * current + (period - 1) * prevEma) / (period + 1); the loop
\* index i is the length of emaValues
EmaLoop(values, period, emaValues) ==
  IF Len(emaValues) >= Len(values) THEN emaValues
  ELSE LET prevEma == Last(emaValues)
           current == values[Len(emaValues) + 1]
           next == DivK(Add(MulK(current, 2), MulK(prevEma, period - 1)), period + 1)
       IN EmaLoop(values, period, Append(emaValues, next))

ema(values, period) ==
  IF Len(values) = 0 THEN <<>>
  ELSE EmaLoop(values, period, <<values[1]>>)

\* ema(values, period).pop() ?? fallback
EmaPop(values, period, fallback) ==
  IF Len(values) = 0 THEN fallback ELSE Last(ema(values, period))

\* values[i] - values[i - 1] of the code's 0-based loop index i
RsiDelta(values, i) == Sub(values[i + 1], values[i])

\* the first loop of rsi: gains and losses summed over the deltas 1..period
RsiGains(values, period) ==
  SumSeq(ArrayOf([i \in 1..period |->
    IF Ge(RsiDelta(values, i), Zero) THEN RsiDelta(values, i) ELSE Zero]))
RsiLosses(values, period) ==
  SumSeq(ArrayOf([i \in 1..period |->
    IF Ge(RsiDelta(values, i), Zero) THEN Zero ELSE Neg(RsiDelta(values, i))]))

RECURSIVE RsiSmooth(_, _, _)
\* the second loop of rsi: Wilder smoothing; avgs lists <<avgGain, avgLoss>> before
\* the loop and after each iteration, so the code's index i is period + Len(avgs)
RsiSmooth(values, period, avgs) ==
  IF period + Len(avgs) >= Len(values) THEN Last(avgs)
  ELSE LET prev == Last(avgs)
           delta == RsiDelta(values, period + Len(avgs))
           next == IF Ge(delta, Zero)
                   THEN <<DivK(Add(MulK(prev[1], period - 1), delta), period),
                          DivK(MulK(prev[2], period - 1), period)>>
                   ELSE <<DivK(MulK(prev[1], period - 1), period),
                          DivK(Sub(MulK(prev[2], period - 1), delta), period)>>
       IN RsiSmooth(values, period, Append(avgs, next))

RsiPeriod == 14

rsiOf(values, period) ==
  IF Len(values) <= period THEN Whole(50)
  ELSE LET gains == DivK(RsiGains(values, period), period)
           losses == DivK(RsiLosses(values, period), period)
           avg == RsiSmooth(values, period, <<(<<gains, losses>>)>>)
           avgGain == avg[1]
           avgLoss == avg[2]
       IN IF StrictEq(avgLoss, Zero) THEN Whole(80)
          ELSE LET rs == Over(avgGain, avgLoss)
               IN Sub(Whole(100), Over(Whole(100), Add(Whole(1), rs)))

rsi(values) == rsiOf(values, RsiPeriod)

MacdFast == 12
MacdSlow == 26
MacdSignal == 9

macdOf(values, fastPeriod, slowPeriod, signalPeriod) ==
  IF Len(values) < slowPeriod + signalPeriod
  THEN [macd |-> Zero, signal |-> Zero, histogram |-> Zero]
  ELSE LET fastEma == ema(values, fastPeriod)
           slowEma == ema(values, slowPeriod)
           macdSeries == ArrayOf([idx \in 1..Len(values) |-> Sub(fastEma[idx], slowEma[idx])])
           signalSeries == ema(SubSeq(macdSeries, slowPeriod, Len(macdSeries)), signalPeriod)
           macdValue == Last(macdSeries)
           signalValue == Last(signalSeries)
       IN [macd |-> macdValue, signal |-> signalValue,
           histogram |-> Sub(macdValue, signalValue)]

macd(values) == macdOf(values, MacdFast, MacdSlow, MacdSignal)

RECURSIVE SumSquares(_, _, _, _)
\* the sum of (val - mean) ** 2 over finite values, in units of 1 / Scale^2
SumSquares(values, mean, lo, hi) ==
  IF lo > hi THEN 0
  ELSE IF lo = hi THEN (values[lo].v - mean.v) * (values[lo].v - mean.v)
  ELSE LET mid == (lo + hi) \div 2
       IN SumSquares(values, mean, lo, mid) + SumSquares(values, mean, mid + 1, hi)

\* population standard deviation; the variance is kept in units of 1 / Scale^2 so
\* that its square root is exact to one fixed-point unit
standardDeviation(values) ==
  LET mean == DivK(SumSeq(values), Len(values))
  IN IF Len(values) = 0 THEN NaN
     ELSE IF ~IsFinite(mean) \/ \E i \in 1..Len(values) : ~IsFinite(values[i]) THEN NaN
     ELSE Num(Isqrt(SumSquares(values, mean, 1, Len(values)) \div Len(values)))

volatilityPercent(closes) ==
  IF Len(closes) < 2 THEN Zero
  ELSE LET returns == ArrayOf([i \in 1..(Len(closes) - 1) |->
                                 Over(Sub(closes[i + 1], closes[i]), closes[i])])
       IN MulK(Times(standardDeviation(returns), MathSqrtOfLength(Len(returns))), 100)

VolumeLookback == 20

volumeSpikeRatioOf(volumes, lookback) ==
  IF Len(volumes) = 0 THEN Whole(1)
  ELSE LET slice == LastN(volumes, lookback + 1)
       IN IF Len(slice) < 2 THEN Whole(1)
          ELSE LET latest == Last(slice)
                   rest == FirstN(slice, Len(slice) - 1)
                   avg == DivK(SumSeq(rest), IF Len(rest) = 0 THEN 1 ELSE Len(rest))
               IN IF StrictEq(avg, Zero) THEN Whole(1) ELSE Over(latest, avg)

volumeSpikeRatio(volumes) == volumeSpikeRatioOf(volumes, VolumeLookback)

(***************************************************************************)
(* Market-data client (src/unnamed/part_000)                               *)
(***************************************************************************)
\* A fetch either rejects (network error, HTTP status not ok) or resolves with the
\* decoded JSON body.
Rejected == [r |-> "reject"]
Resolved(body) == [r |-> "ok", body |-> body]

\* fetchPerpetualSymbols: the filter applied to the exchangeInfo payload
IsPerpetualUsdt(s) ==
  s.contractType = "PERPETUAL" /\ s.status = "TRADING" /\ s.quoteAsset = "USDT"

\* fetchPerpetualSymbols: rejects on a failed request and on a body without a
\* symbols array (data.symbols.filter throws)
fetchPerpetualSymbols(reply) ==
  IF reply.r = "reject" THEN Rejected
  ELSE IF reply.body.t # "exchangeInfo" THEN Rejected
  ELSE Resolved(SelectSeq(reply.body.symbols, IsPerpetualUsdt))

\* parseKlines: k[4], k[2], k[3], k[5] of every candle through Number()
parseKlines(klines) ==
  [closes |-> ArrayOf([i \in 1..Len(klines) |-> ToNumber(klines[i].close)]),
   highs |-> ArrayOf([i \in 1..Len(klines) |-> ToNumber(klines[i].high)]),
   lows |-> ArrayOf([i \in 1..Len(klines) |-> ToNumber(klines[i].low)]),
   volumes |-> ArrayOf([i \in 1..Len(klines) |-> ToNumber(klines[i].volume)])]

(***************************************************************************)
(* Scan route: pure helpers (src/src/app/api/scan/route.ts)                *)
(***************************************************************************)
MAX_DEEP_SYMBOLS == 25
LimiterConcurrency == 6
LiquidityFloor == 2000000
MinTrendBars == 30
BreakoutLookback == 20
ScoreFloor == 55
MoversSize == 5
StrongestSize == 3

\* Math.min(x * k, cap) for an integer literal k, without an intermediate above 2^31
MinScaled(x, k, cap) ==
  IF IsFinite(x) /\ x.v > cap.v \div k THEN cap ELSE MathMin(MulK(x, k), cap)

normalizeTicker(ticker) ==
  [symbol |-> ticker.symbol,
   lastPrice |-> ToNumber(ticker.lastPrice),
   priceChangePercent |-> ToNumber(ticker.priceChangePercent),
   quoteVolume |-> ToNumber(ticker.quoteVolume),
   volume |-> ToNumber(ticker.volume),
   tradeCount |-> IF ticker.count.j \in {"undefined", "null"} THEN Zero
                  ELSE ToNumber(ticker.count),
   highPrice |-> ToNumber(ticker.highPrice),
   lowPrice |-> ToNumber(ticker.lowPrice),
   weightedAvgPrice |-> ToNumber(ticker.weightedAvgPrice)]

RECURSIVE DigitsBelow(_)
\* floor(log10(n)) for n >= 1
DigitsBelow(n) == IF n < 10 THEN 0 ELSE 1 + DigitsBelow(n \div 10)
\* Math.log10 of a quantity in whole units, rounded down to a whole number: exact
\* wherever preScoreTicker caps it (12 * log10(x) > 25 for every x >= 1000)
MathLog10(x) ==
  IF IsNaN(x) THEN NaN
  ELSE IF IsInf(x) THEN (IF x.v > 0 THEN Infinity ELSE NaN)
  ELSE IF x.v < 0 THEN NaN
  ELSE IF x.v = 0 THEN NegInfinity
  ELSE Whole(DigitsBelow(x.v))

preScoreTicker(ticker) ==
  LET priceMoveScore ==
        MathMin(Times(MathAbs(ticker.priceChangePercent), Fx(1, 2000)), Whole(25))
      volumeScore ==
        MathMin(MulK(MathLog10(Add(ticker.quoteVolume, Num(1))), 12), Whole(25))
      range ==
        IF Gt(ticker.lowPrice, Zero)
        THEN MulK(Over(Sub(ticker.highPrice, ticker.lowPrice), ticker.lowPrice), 100)
        ELSE Zero
      rangeScore == MathMin(range, Whole(20))
      velocity == Over(MathAbs(ticker.priceChangePercent), MathMax(range, Whole(1)))
      velocityScore == MinScaled(velocity, 10, Whole(15))
      baseline == Add(Add(Add(priceMoveScore, volumeScore), rangeScore), velocityScore)
  IN baseline

\* [...array].sort(compare) for a comparator consistent on the array: the stable
\* order, in which element i comes after every element that compares before it and
\* after the earlier elements that compare equal to it.  before[i][j] is
\* compare(s[i], s[j]) < 0.
SortRank(s, i, before) ==
  Cardinality({j \in 1..Len(s) : before[j][i]})
  + Cardinality({j \in 1..(i - 1) : ~before[i][j] /\ ~before[j][i]}) + 1
StableSort(s, before) ==
  [k \in 1..Len(s) |-> s[CHOOSE i \in 1..Len(s) : SortRank(s, i, before) = k]]

\* A delta taken between the last two points in the order the provider sent them
calculateOpenInterestDeltaUnsorted(history) ==
  LET points == history.points
      latest == ToNumber(points[Len(points)].sumOpenInterest)
      prev == ToNumber(points[Len(points) - 1].sumOpenInterest)
  IN IF history.t = "null" \/ Len(points) < 2 THEN Zero
     ELSE IF StrictEq(prev, Zero) THEN Zero
     ELSE MulK(Over(Sub(latest, prev), prev), 100)

calculateOpenInterestDelta(history) ==
  LET points == history.points
      sorted ==
        StableSort(points, [i \in 1..Len(points) |-> [j \in 1..Len(points) |->
                              points[i].timestamp < points[j].timestamp]])
      latest == ToNumber(sorted[Len(sorted)].sumOpenInterest)
      prev == ToNumber(sorted[Len(sorted) - 1].sumOpenInterest)
  IN IF history.t = "null" \/ Len(points) < 2 THEN Zero
     ELSE IF StrictEq(prev, Zero) THEN Zero
     ELSE MulK(Over(Sub(latest, prev), prev), 100)

detectBreakout(highs, lows, price) ==
  LET recentHighs == LastN(highs, BreakoutLookback)
      recentLows == LastN(lows, BreakoutLookback)
      referenceHighs == IF Len(recentHighs) # 0 THEN recentHighs ELSE highs
      referenceLows == IF Len(recentLows) # 0 THEN recentLows ELSE lows
      recentHigh == MaxSeq(referenceHighs)
      recentLow == MinSeq(referenceLows)
      nearHigh == Over(Sub(price, recentHigh), recentHigh)
      nearLow == Over(Sub(price, recentLow), recentLow)
  IN [nearHigh |-> nearHigh,
      nearLow |-> nearLow,
      isBreakout |-> Gt(nearHigh, Neg(Fx(0, 20))),
      isBreakdown |-> Lt(nearLow, Fx(0, 20))]

SameSign(a, b) == StrictEq(MathSign(a), MathSign(b))

\* A classifier that tries the About To Move tier before the Moving Now tier
determineMovementStatusAlignedFirst(params) ==
  LET strongMomentum ==
        /\ Gt(params.volSpike1h, Fx(1, 6000))
        /\ Gt(params.volSpike15m, Fx(1, 4000))
        /\ Gt(MathAbs(params.priceChange), Whole(1))
        /\ SameSign(params.macdHist1h, params.macdHist4h)
        /\ Gt(MathAbs(params.emaTrend1h), Fx(0, 100))
        /\ Gt(MathAbs(params.emaTrend4h), Fx(0, 100))
        /\ Gt(MathAbs(params.oiChangePct), Fx(0, 5000))
      alignedMomentum ==
        \/ /\ Gt(params.volSpike1h, Fx(1, 3000))
           /\ Gt(MathAbs(params.emaTrend1h), Fx(0, 60))
           /\ Gt(MathAbs(params.macdHist1h), Fx(0, 5))
        \/ /\ Gt(params.volSpike15m, Fx(1, 2000))
           /\ Gt(MathAbs(params.oiChangePct), Fx(0, 3000))
  IN IF /\ alignedMomentum
        /\ SameSign(params.emaTrend1h, params.emaTrend4h)
        /\ SameSign(params.macdHist1h, params.macdHist4h)
        /\ \/ Gt(params.rsi1h, Whole(52)) /\ Gt(params.rsi4h, Whole(50))
           \/ Lt(params.rsi1h, Whole(48)) /\ Lt(params.rsi4h, Whole(50))
     THEN "About To Move"
     ELSE IF \/ strongMomentum
             \/ /\ params.breakout.isBreakout
                /\ params.longerBreakout.isBreakout
                /\ Gt(params.volatility, Fx(2, 5000))
     THEN "Moving Now"
     ELSE "Likely in 24H"

determineMovementStatus(params) ==
  LET strongMomentum ==
        /\ Gt(params.volSpike1h, Fx(1, 6000))
        /\ Gt(params.volSpike15m, Fx(1, 4000))
        /\ Gt(MathAbs(params.priceChange), Whole(1))
        /\ SameSign(params.macdHist1h, params.macdHist4h)
        /\ Gt(MathAbs(params.emaTrend1h), Fx(0, 100))
        /\ Gt(MathAbs(params.emaTrend4h), Fx(0, 100))
        /\ Gt(MathAbs(params.oiChangePct), Fx(0, 5000))
      alignedMomentum ==
        \/ /\ Gt(params.volSpike1h, Fx(1, 3000))
           /\ Gt(MathAbs(params.emaTrend1h), Fx(0, 60))
           /\ Gt(MathAbs(params.macdHist1h), Fx(0, 5))
        \/ /\ Gt(params.volSpike15m, Fx(1, 2000))
           /\ Gt(MathAbs(params.oiChangePct), Fx(0, 3000))
  IN IF \/ strongMomentum
        \/ /\ params.breakout.isBreakout
           /\ params.longerBreakout.isBreakout
           /\ Gt(params.volatility, Fx(2, 5000))
     THEN "Moving Now"
     ELSE IF /\ alignedMomentum
             /\ SameSign(params.emaTrend1h, params.emaTrend4h)
             /\ SameSign(params.macdHist1h, params.macdHist4h)
             /\ \/ Gt(params.rsi1h, Whole(52)) /\ Gt(params.rsi4h, Whole(50))
                \/ Lt(params.rsi1h, Whole(48)) /\ Lt(params.rsi4h, Whole(50))
     THEN "About To Move"
     ELSE "Likely in 24H"

\* A direction rule that tries the Short rule before the Long rule
deriveDirectionShortFirst(emaTrend1h, emaTrend4h, rsi1h) ==
  IF Le(emaTrend1h, Zero) /\ Le(emaTrend4h, Zero) /\ Le(rsi1h, Whole(52)) THEN "Short"
  ELSE IF Ge(emaTrend1h, Zero) /\ Ge(emaTrend4h, Zero) /\ Ge(rsi1h, Whole(48)) THEN "Long"
  ELSE IF Ge(emaTrend1h, emaTrend4h) THEN "Long"
  ELSE "Short"

deriveDirection(emaTrend1h, emaTrend4h, rsi1h) ==
  IF Ge(emaTrend1h, Zero) /\ Ge(emaTrend4h, Zero) /\ Ge(rsi1h, Whole(48)) THEN "Long"
  ELSE IF Le(emaTrend1h, Zero) /\ Le(emaTrend4h, Zero) /\ Le(rsi1h, Whole(52)) THEN "Short"
  ELSE IF Ge(emaTrend1h, emaTrend4h) THEN "Long"
  ELSE "Short"

buildCompositeScore(params) ==
  LET trendAlignment == IF SameSign(params.emaTrend1h, params.emaTrend4h) THEN 1 ELSE 0
      macdAlignment == IF SameSign(params.macdHist1h, params.macdHist4h) THEN 1 ELSE 0
      rsiAlignment ==
        IF \/ Gt(params.rsi1h, Whole(55)) /\ Gt(params.rsi4h, Whole(52))
           \/ Lt(params.rsi1h, Whole(45)) /\ Lt(params.rsi4h, Whole(48))
        THEN 1 ELSE 0
      \* breakFactor * 8, with breakFactor = (isBreakout ? 1 : 0) + (longer ? 0.8 : 0)
      breakoutBonus ==
        Add(IF params.breakout.isBreakout THEN Whole(8) ELSE Zero,
            IF params.longerBreakout.isBreakout THEN Fx(6, 4000) ELSE Zero)
      volScore ==
        Add(MinScaled(params.volSpike1h, 15, Whole(18)),
            MinScaled(params.volSpike15m, 12, Whole(15)))
      trendScore ==
        Add(MinScaled(MathAbs(params.emaTrend1h), 110, Whole(18)),
            MinScaled(MathAbs(params.emaTrend4h), 90, Whole(16)))
      macdScore ==
        Add(MinScaled(MathAbs(params.macdHist1h), 70000, Whole(12)),
            MinScaled(MathAbs(params.macdHist4h), 40000, Whole(10)))
      rsiScore == IF rsiAlignment = 1 THEN Whole(10) ELSE Whole(4)
      oiScore == MinScaled(MathAbs(params.oiChangePct), 4, Whole(12))
      fundingPenalty ==
        MulK(MathMax(Sub(MathAbs(params.fundingRatePct), Fx(0, 300)), Zero), 120)
      volatilityScore == MinScaled(params.volatility, 4, Whole(15))
      base ==
        Add(Add(Add(Add(Add(volScore, trendScore), macdScore), rsiScore), oiScore),
            volatilityScore)
      alignmentBonus == Whole((trendAlignment + macdAlignment + rsiAlignment) * 6)
      composite == Sub(Add(Add(base, alignmentBonus), breakoutBonus), fundingPenalty)
  IN IF IsFinite(composite) THEN composite ELSE Zero

\* A risk score that is rounded to one decimal but not clamped
deriveRiskScoreUnclamped(params) ==
  LET volRisk == MathMin(Over(params.volatility, Fx(1, 5000)), Whole(6))
      fundingRisk == MinScaled(MathAbs(params.fundingRatePct), 120, Whole(4))
      oiRisk ==
        MathMax(Zero, Sub(Whole(3), MathMin(MathAbs(params.oiChangePct), Whole(3))))
      volumeRisk ==
        IF Gt(params.volSpike1h, Fx(2, 2000)) \/ Gt(params.volSpike15m, Fx(2, 2000))
        THEN Fx(1, 5000)
        ELSE IF Lt(params.volSpike1h, Whole(1)) THEN Whole(4)
        ELSE Whole(1)
      raw == Add(Add(Add(volRisk, fundingRisk), oiRisk), volumeRisk)
  IN ToFixed(raw, 1)

deriveRiskScore(params) ==
  LET volRisk == MathMin(Over(params.volatility, Fx(1, 5000)), Whole(6))
      fundingRisk == MinScaled(MathAbs(params.fundingRatePct), 120, Whole(4))
      oiRisk ==
        MathMax(Zero, Sub(Whole(3), MathMin(MathAbs(params.oiChangePct), Whole(3))))
      volumeRisk ==
        IF Gt(params.volSpike1h, Fx(2, 2000)) \/ Gt(params.volSpike15m, Fx(2, 2000))
        THEN Fx(1, 5000)
        ELSE IF Lt(params.volSpike1h, Whole(1)) THEN Whole(4)
        ELSE Whole(1)
      raw == Add(Add(Add(volRisk, fundingRisk), oiRisk), volumeRisk)
  IN MathMax(Whole(1), MathMin(Whole(10), ToFixed(raw, 1)))

\* A confidence label that looks at the composite score only
deriveConfidenceByScoreOnly(composite, riskScore) ==
  IF Gt(composite, Whole(90)) THEN "High"
  ELSE IF Gt(composite, Whole(70)) THEN "Medium"
  ELSE "Low"

deriveConfidence(composite, riskScore) ==
  IF Gt(composite, Whole(90)) /\ Le(riskScore, Whole(4)) THEN "High"
  ELSE IF Gt(composite, Whole(70)) /\ Le(riskScore, Whole(6)) THEN "Medium"
  ELSE "Low"

roundToTickSize(price) ==
  IF Ge(price, Whole(1000)) THEN ToFixed(price, 1)
  ELSE IF Ge(price, Whole(100)) THEN ToFixed(price, 2)
  ELSE IF Ge(price, Whole(10)) THEN ToFixed(price, 3)
  ELSE IF Ge(price, Whole(1)) THEN ToFixed(price, 4)
  ELSE ToFixed(price, 5)

tpMultipliers(direction) ==
  IF direction = "Long" THEN <<Fx(1, 60), Fx(1, 120), Fx(1, 200)>>
  ELSE <<Fx(0, 9940), Fx(0, 9880), Fx(0, 9780)>>

\* A stop that widens with volatility without the outer clamp
stopMultiplierUnclamped(direction, volatility) ==
  IF direction = "Long"
  THEN Sub(Whole(1), MathMax(DivK(volatility, 150), Fx(0, 120)))
  ELSE Add(Whole(1), MathMax(DivK(volatility, 150), Fx(0, 120)))

stopMultiplier(direction, volatility) ==
  IF direction = "Long"
  THEN MathMax(Fx(0, 9860), Sub(Whole(1), MathMax(DivK(volatility, 150), Fx(0, 120))))
  ELSE MathMin(Fx(1, 140), Add(Whole(1), MathMax(DivK(volatility, 150), Fx(0, 120))))

safeLeverage(volatility) ==
  IF Lt(volatility, Whole(2)) THEN "15-20x"
  ELSE IF Lt(volatility, Fx(3, 5000)) THEN "10-15x"
  ELSE IF Lt(volatility, Whole(5)) THEN "6-10x"
  ELSE IF Lt(volatility, Whole(7)) THEN "4-6x"
  ELSE "3-4x"

\* What the promise returned by evaluateSymbol settles with.
Threw == [tag |-> "rejected"]
ReturnedNull == [tag |-> "null"]
Returned(rec) == [tag |-> "record", rec |-> rec]

\* Lines 194-195: (lastPrice - ema21) / ema21 - (ema21 - ema50) / ema50
emaTrend(lastPrice, ema21, ema50) ==
  Sub(Over(Sub(lastPrice, ema21), ema21), Over(Sub(ema21, ema50), ema50))

\* Lines 234-334: status, direction, scores and trade levels from the indicators
buildSignal(ticker, lastPrice, params, macd1h, macd4h) ==
  LET direction == deriveDirection(params.emaTrend1h, params.emaTrend4h, params.rsi1h)
      compositeScore == buildCompositeScore(params)
      riskScore == deriveRiskScore(params)
  IN [symbol |-> ticker.symbol,
      movementStatus |-> determineMovementStatus(params),
      riskScore |-> riskScore,
      confidence |-> deriveConfidence(compositeScore, riskScore),
      direction |-> direction,
      entry |-> roundToTickSize(lastPrice),
      takeProfits |->
        ArrayOf([m \in 1..3 |-> roundToTickSize(Times(lastPrice, tpMultipliers(direction)[m]))]),
      stopLoss |-> roundToTickSize(Times(lastPrice, stopMultiplier(direction, params.volatility))),
      safeLeverage |-> safeLeverage(params.volatility),
      compositeScore |-> compositeScore,
      metadata |->
        [rsi1h |-> params.rsi1h,
         rsi4h |-> params.rsi4h,
         macd1h |-> macd1h.macd,
         macdHistogram1h |-> macd1h.histogram,
         macd4h |-> macd4h.macd,
         macdHistogram4h |-> macd4h.histogram,
         emaTrend1h |-> params.emaTrend1h,
         emaTrend4h |-> params.emaTrend4h,
         volumeSpikeRatio |-> params.volSpike1h,
         openInterestDeltaPct |-> params.oiChangePct,
         fundingRatePct |-> params.fundingRatePct,
         volatilityPct |-> params.volatility,
         priceChange24h |-> ticker.priceChangePercent]]

\* Lines 186-218: the indicators of the parsed series
deriveIndicators(ticker, lastPrice, oneHour, fourHour, fifteenMin, premium, oiHist, macd1h, macd4h) ==
  buildSignal(
    ticker, lastPrice,
    [priceChange |-> ticker.priceChangePercent,
     volSpike1h |-> volumeSpikeRatio(oneHour.volumes),
     volSpike15m |-> volumeSpikeRatio(fifteenMin.volumes),
     emaTrend1h |->
       emaTrend(lastPrice, EmaPop(oneHour.closes, 21, lastPrice),
                EmaPop(oneHour.closes, 50, lastPrice)),
     emaTrend4h |->
       emaTrend(lastPrice, EmaPop(fourHour.closes, 21, lastPrice),
                EmaPop(fourHour.closes, 50, lastPrice)),
     rsi1h |-> rsi(LastN(oneHour.closes, 120)),
     rsi4h |-> rsi(LastN(fourHour.closes, 120)),
     macdHist1h |-> macd1h.histogram,
     macdHist4h |-> macd4h.histogram,
     breakout |-> detectBreakout(oneHour.highs, oneHour.lows, lastPrice),
     longerBreakout |-> detectBreakout(fourHour.highs, fourHour.lows, lastPrice),
     fundingRatePct |-> MulK(ToNumber(premium.lastFundingRate), 100),
     oiChangePct |-> calculateOpenInterestDelta(oiHist),
     volatility |-> volatilityPercent(LastN(oneHour.closes, 48))],
    macd1h, macd4h)

\* Lines 182-191 on the parsed series
evaluateParsed(ticker, oneHour, fourHour, fifteenMin, premium, oiHist) ==
  deriveIndicators(ticker, Last(oneHour.closes), oneHour, fourHour, fifteenMin, premium,
                   oiHist, macd(LastN(oneHour.closes, 160)),
                   macd(LastN(fourHour.closes, 160)))

\* evaluateSymbol from line 182 on: every fetch resolved with an array of at least
\* MinTrendBars candles where the guard asked for it
evaluateFetched(ticker, klines1h, klines4h, klines15m, premium, oiHist) ==
  evaluateParsed(ticker, parseKlines(klines1h), parseKlines(klines4h),
                 parseKlines(klines15m), premium, oiHist)

\* klines.length < MinTrendBars: false for a body that is no array (its length is
\* undefined)
\* A guard that lets every series through
TooShortNever(body) == FALSE

TooShort(body) == body.t = "array" /\ Len(body.bars) < MinTrendBars

\* evaluateSymbol, given what the five fetches settle with: the promise rejects when
\* a fetch rejects or the evaluation throws a TypeError on a body of the wrong shape
evaluateSymbol(ticker, fetched) ==
  LET k1 == fetched.klines1h.body
      k4 == fetched.klines4h.body
      k15 == fetched.klines15m.body
      premium == fetched.premium.body
      oiHist == fetched.oiHist.body
  IN IF \E f \in DOMAIN fetched : fetched[f].r = "reject" THEN Threw
     ELSE IF k1.t = "null" THEN Threw
     ELSE IF TooShort(k1) THEN ReturnedNull
     ELSE IF k4.t = "null" THEN Threw
     ELSE IF TooShort(k4) THEN ReturnedNull
     ELSE IF k1.t # "array" \/ k4.t # "array" \/ k15.t # "array" THEN Threw
     ELSE IF premium.t # "object" THEN Threw
     ELSE IF oiHist.t = "object" THEN Threw
     ELSE Returned(evaluateFetched(ticker, k1.bars, k4.bars, k15.bars, premium, oiHist))

(***************************************************************************)
(* Provider payloads the scan can be served                                *)
(***************************************************************************)
\* One kline row: the provider encodes prices and volumes as strings.
Candle(close, spread, volume) ==
  [high |-> Str(close + spread), low |-> Str(close - spread),
   close |-> Str(close), volume |-> Str(volume)]

\* n candles whose close moves by step per bar from start, the last bar trading
\* lastVolume and closing pullback below its high
KlineSeries(n, start, step, spread, volume, lastVolume, pullback) ==
  [t |-> "array",
   bars |-> ArrayOf([i \in 1..n |->
     IF i = n
     THEN [high |-> Str(start + step * (i - 1) + spread + pullback),
           low |-> Str(start + step * (i - 1) - spread),
           close |-> Str(start + step * (i - 1)),
           volume |-> Str(lastVolume)]
     ELSE Candle(start + step * (i - 1), spread, volume)])]

PremiumIndex(rate) == [t |-> "object", lastFundingRate |-> rate]

\* Open-interest history, delivered out of timestamp order
OpenInterestHist(prev, latest) ==
  [t |-> "array",
   points |-> <<[timestamp |-> 3, sumOpenInterest |-> latest],
                [timestamp |-> 1, sumOpenInterest |-> prev],
                [timestamp |-> 2, sumOpenInterest |-> prev]>>]

NullBody == [t |-> "null"]
ErrorObject == [t |-> "object"]

Fetched(k1h, k4h, k15m, premium, oiHist) ==
  [klines1h |-> k1h, klines4h |-> k4h, klines15m |-> k15m,
   premium |-> premium, oiHist |-> oiHist]

\* Candle series of a symbol in an up-trend whose last bar trades twice the usual
\* volume and closes on its high
SurgeSeries == KlineSeries(36, 100000, 500, 200, 10000000, 20000000, 0)
\* The same trend on half the usual volume, closing well below the high
FadingSeries == KlineSeries(30, 100000, 500, 200, 10000000, 5000000, 5000)
\* One bar short of the minimum the evaluation asks for
ShortSeries == KlineSeries(MinTrendBars - 1, 100000, 500, 200, 10000000, 20000000, 0)
\* A 15m series too short for a volume baseline
BriefSeries == KlineSeries(5, 100000, 500, 200, 10000000, 20000000, 0)
\* Every price zero
ZeroPriceSeries == KlineSeries(36, 0, 0, 0, 10000000, 20000000, 0)
\* The last candle's volume is not a number
GarbledSeries ==
  [t |-> "array",
   bars |-> ArrayOf([i \in 1..36 |->
     IF i = 36 THEN [SurgeSeries.bars[i] EXCEPT !.volume = Text]
     ELSE SurgeSeries.bars[i]])]

UsualFunding == Resolved(PremiumIndex(Str(1)))

\* Everything a symbol's five fetches settle with, by the kind of market it is in
Surge(oiLatest) ==
  Fetched(Resolved(SurgeSeries), Resolved(SurgeSeries), Resolved(SurgeSeries),
          UsualFunding, Resolved(OpenInterestHist(Str(1000), Str(oiLatest))))
Fading ==
  Fetched(Resolved(FadingSeries), Resolved(FadingSeries), Resolved(FadingSeries),
          UsualFunding, Resolved(OpenInterestHist(Str(1000), Str(1000))))
ShortOneHour == [Surge(1010) EXCEPT !.klines1h = Resolved(ShortSeries)]
ShortFourHour == [Surge(1010) EXCEPT !.klines4h = Resolved(ShortSeries)]
ShortFifteen == [Surge(1010) EXCEPT !.klines15m = Resolved(BriefSeries)]
FetchFails(f) == [Surge(1010) EXCEPT ![f] = Rejected]
MalformedKlines == [Surge(1010) EXCEPT !.klines1h = Resolved(ErrorObject)]
NullPremium == [Surge(1010) EXCEPT !.premium = Resolved(NullBody)]
NullOpenInterest == [Surge(1010) EXCEPT !.oiHist = Resolved(NullBody)]
MissingFunding == [Surge(1010) EXCEPT !.premium = Resolved(PremiumIndex(Undefined))]
ZeroPreviousOi == [Surge(1010) EXCEPT !.oiHist = Resolved(OpenInterestHist(Str(0), Str(1000)))]
ZeroPrices ==
  [Surge(1010) EXCEPT !.klines1h = Resolved(ZeroPriceSeries),
                      !.klines4h = Resolved(ZeroPriceSeries)]
GarbledVolume == [Surge(1010) EXCEPT !.klines1h = Resolved(GarbledSeries)]

\* One row of the 24h ticker batch
Ticker24h(symbol, priceChangePercent, quoteVolume) ==
  [symbol |-> symbol, lastPrice |-> Str(100000),
   priceChangePercent |-> priceChangePercent, quoteVolume |-> quoteVolume,
   volume |-> Str(1000), count |-> Str(500), highPrice |-> Str(110000),
   lowPrice |-> Str(90000), weightedAvgPrice |-> Str(100000)]

\* One row of exchangeInfo.symbols
Listing(symbol, contractType, status, quoteAsset) ==
  [symbol |-> symbol, contractType |-> contractType, status |-> status,
   quoteAsset |-> quoteAsset]
Perpetual(symbol) == Listing(symbol, "PERPETUAL", "TRADING", "USDT")

ExchangeInfo(listings) == [t |-> "exchangeInfo", symbols |-> listings]

(***************************************************************************)
(* Worlds: what the provider serves while the scans run.  A world fixes    *)
(* the exchangeInfo listing, the ticker batch and, per symbol, what its    *)
(* five fetches settle with; whether a universe fetch fails is decided     *)
(* per request, when it settles.                                           *)
(***************************************************************************)
\* Number of rows of the ticker batch in the wide world
WideTickers == 28
\* Number of GET invocations that may overlap
MaxGets == 2
\* Number of GET invocations against the crowded world
CrowdedGets == 1
\* fetchData calls the page makes
MaxRefreshes == 3
\* Points of an open-interest history handed to calculateOpenInterestDelta
MaxPoints == 3

AllFetches == {"klines1h", "klines4h", "klines15m", "premium", "oiHist"}

\* The markets of the wide world, dealt to the symbols in turn
WideKinds ==
  <<Surge(1010), FetchFails("klines1h"), Surge(1020), ShortOneHour, Fading,
    FetchFails("klines4h"), Surge(1000), FetchFails("klines15m"), ShortFourHour,
    FetchFails("premium"), ShortFifteen, FetchFails("oiHist"), MalformedKlines>>

\* Wide world: every symbol but the last is listed as a tradable perpetual; the
\* last but one trades exactly the liquidity floor; 24h moves repeat, so pre-scores
\* tie, and do not follow the order of the batch
WideWorld ==
  [exchangeInfo |->
     ExchangeInfo(ArrayOf([s \in 1..WideTickers |->
       IF s = WideTickers THEN Listing(s, "PERPETUAL", "BREAK", "USDT") ELSE Perpetual(s)])),
   tickers |->
     ArrayOf([s \in 1..WideTickers |->
       Ticker24h(s, Str(((s * 7) % 11) * 5000 - 20000),
                 IF s = WideTickers - 1 THEN Str(LiquidityFloor) ELSE Str(LiquidityFloor + s))]),
   market |-> ArrayOf([s \in 1..WideTickers |-> WideKinds[((s - 1) % Len(WideKinds)) + 1]])]

\* Mixed world: two strong symbols with equal composite score, one whose fetch
\* fails, one with a short 4h series, one at the liquidity floor, three that
\* are not tradable USDT perpetuals
MixedWorld ==
  [exchangeInfo |->
     ExchangeInfo(<<Perpetual(1), Perpetual(2), Perpetual(3), Perpetual(4), Perpetual(5),
                    Listing(6, "PERPETUAL", "BREAK", "USDT"),
                    Listing(7, "CURRENT_QUARTER", "TRADING", "USDT"),
                    Listing(8, "PERPETUAL", "TRADING", "BUSD")>>),
   tickers |->
     <<Ticker24h(1, Str(10000), Str(5000000)), Ticker24h(2, Str(40000), Str(5000000)),
       Ticker24h(3, Str(-40000), Str(5000000)), Ticker24h(4, Str(20000), Str(5000000)),
       Ticker24h(5, Str(90000), Str(LiquidityFloor)), Ticker24h(6, Str(90000), Str(5000000)),
       Ticker24h(7, Str(90000), Str(5000000)), Ticker24h(8, Str(90000), Str(5000000))>>,
   market |->
     <<Surge(1010), FetchFails("klines1h"), Surge(1010), ShortFourHour,
       Surge(1010), Surge(1010), Surge(1010), Surge(1010)>>]

\* Quiet world: every tradable liquid symbol is dropped or scores below the floor
QuietWorld ==
  [exchangeInfo |-> ExchangeInfo(<<Perpetual(1), Perpetual(2), Perpetual(3), Perpetual(4)>>),
   tickers |->
     <<Ticker24h(1, Str(10000), Str(5000000)), Ticker24h(2, Str(20000), Str(5000000)),
       Ticker24h(3, Str(30000), Str(5000000)), Ticker24h(4, Str(40000), Str(5000000))>>,
   market |-> <<Fading, NullPremium, ShortOneHour, ZeroPrices>>]

\* Degenerate world: payloads with missing or non-numeric fields and zero values
DegenerateWorld ==
  [exchangeInfo |-> ExchangeInfo(<<Perpetual(1), Perpetual(2), Perpetual(3), Perpetual(4)>>),
   tickers |->
     <<Ticker24h(1, Str(10000), Str(5000000)), Ticker24h(2, Str(20000), Str(5000000)),
       Ticker24h(3, Str(30000), Str(5000000)), Ticker24h(4, Str(40000), Str(5000000))>>,
   market |-> <<ZeroPreviousOi, MissingFunding, GarbledVolume, NullOpenInterest>>]

\* A world whose one liquid ticker row lacks its 24h price change
PartialTickerWorld ==
  [exchangeInfo |-> ExchangeInfo(<<Perpetual(1), Perpetual(2)>>),
   tickers |->
     <<Ticker24h(1, Undefined, Str(5000000)), Ticker24h(2, Str(20000), Str(1000000))>>,
   market |-> <<Surge(1010), Surge(1010)>>]

\* A world without any liquid tradable ticker
IlliquidWorld ==
  [exchangeInfo |-> ExchangeInfo(<<Perpetual(1), Listing(2, "PERPETUAL", "BREAK", "USDT")>>),
   tickers |->
     <<Ticker24h(1, Str(90000), Str(LiquidityFloor)), Ticker24h(2, Str(90000), Str(5000000))>>,
   market |-> <<Surge(1010), Surge(1010)>>]

\* Crowded world: more symbols than limiter slots, six of them strong with
\* repeated composite scores, one below the score floor
CrowdedWorld ==
  [exchangeInfo |->
     ExchangeInfo(ArrayOf([s \in 1..7 |-> Perpetual(s)])),
   tickers |->
     <<Ticker24h(1, Str(10000), Str(5000000)), Ticker24h(2, Str(-30000), Str(5000000)),
       Ticker24h(3, Str(20000), Str(5000000)), Ticker24h(4, Str(50000), Str(5000000)),
       Ticker24h(5, Str(-10000), Str(5000000)), Ticker24h(6, Str(40000), Str(5000000)),
       Ticker24h(7, Str(30000), Str(5000000))>>,
   market |->
     <<Surge(1010), Surge(1020), Surge(1000), Surge(1010), ShortFifteen, Fading,
       Surge(1020)>>]

SmallWorlds == {"mixed", "quiet", "degenerate", "partial", "illiquid", "crowded"}
WorldNames == SmallWorlds \cup {"wide"}

Worlds ==
  [mixed |-> MixedWorld, quiet |-> QuietWorld, degenerate |-> DegenerateWorld,
   partial |-> PartialTickerWorld, illiquid |-> IlliquidWorld, crowded |-> CrowdedWorld,
   wide |-> WideWorld]

(***************************************************************************)
(* GET: the synchronous stages                                             *)
(***************************************************************************)
\* Lines 81-85: tickers of tradable symbols, normalized, above the liquidity floor
filterTickers(symbols, tickers) ==
  LET tradable == {symbols[i].symbol : i \in 1..Len(symbols)}
      listed == SelectSeq(tickers, LAMBDA ticker : ticker.symbol \in tradable)
      normalized == ArrayOf([i \in 1..Len(listed) |-> normalizeTicker(listed[i])])
  IN SelectSeq(normalized, LAMBDA ticker : Gt(ticker.quoteVolume, Num(LiquidityFloor)))

\* (a, b) => b.preScore - a.preScore, negative when a goes first
ByPreScore(scored) ==
  [i \in 1..Len(scored) |-> [j \in 1..Len(scored) |->
     Gt(scored[i].preScore, scored[j].preScore)]]

\* Pre-score and sort without truncating
preScoreAndKeepAll(filteredTickers) ==
  LET scored ==
        ArrayOf([i \in 1..Len(filteredTickers) |->
          [ticker |-> filteredTickers[i], preScore |-> preScoreTicker(filteredTickers[i])]])
  IN ArrayOf(StableSort(scored, ByPreScore(scored)))

\* Lines 96-102: pre-score every filtered ticker, sort descending, keep the first
\* MAX_DEEP_SYMBOLS
preScoreAndSlice(filteredTickers) ==
  LET scored ==
        ArrayOf([i \in 1..Len(filteredTickers) |->
          [ticker |-> filteredTickers[i], preScore |-> preScoreTicker(filteredTickers[i])]])
  IN FirstN(ArrayOf(StableSort(scored, ByPreScore(scored))), MAX_DEEP_SYMBOLS)

\* A limiter wrapper without the catch: a rejected evaluation stays rejected
CatchNothing(outcome) == outcome

\* Line 107: a rejected evaluation counts as null
CatchNull(outcome) == IF outcome.tag = "rejected" THEN ReturnedNull ELSE outcome

\* (a, b) => b.compositeScore - a.compositeScore, negative when a goes first
ByComposite(records) ==
  [i \in 1..Len(records) |-> [j \in 1..Len(records) |->
     Gt(records[i].compositeScore, records[j].compositeScore)]]

\* The non-null results in the order of the array, neither filtered nor sorted
rankNothing(items) ==
  LET truthy == SelectSeq(items, LAMBDA item : item.tag = "record")
  IN ArrayOf([i \in 1..Len(truthy) |-> truthy[i].rec])

\* The non-null results sorted best first, without the score floor
rankWithoutFloor(items) ==
  LET truthy == SelectSeq(items, LAMBDA item : item.tag = "record")
      records == ArrayOf([i \in 1..Len(truthy) |-> truthy[i].rec])
  IN ArrayOf(StableSort(records, ByComposite(records)))

\* Lines 111-113: the non-null results at or above the score floor, best first
rankEvaluated(items) ==
  LET truthy == SelectSeq(items, LAMBDA item : item.tag = "record")
      records == ArrayOf([i \in 1..Len(truthy) |-> truthy[i].rec])
      qualified == SelectSeq(records, LAMBDA rec : Ge(rec.compositeScore, Whole(ScoreFloor)))
  IN ArrayOf(StableSort(qualified, ByComposite(qualified)))

NoCandidateMessage == "NO SAFE FUTURES TRADE RIGHT NOW."
ScanFailedError == "Failed to run live Binance Futures scan."

\* The three bodies GET answers with; keys is the set of fields the body has
NoResponse == [status |-> 0, keys |-> {}, movers |-> <<>>, strongest |-> <<>>,
               all |-> <<>>, message |-> "", error |-> ""]
EmptyResponse ==
  [status |-> 200, keys |-> {"movers", "strongest", "message"}, movers |-> <<>>,
   strongest |-> <<>>, all |-> <<>>, message |-> NoCandidateMessage, error |-> ""]
ErrorResponse ==
  [status |-> 500, keys |-> {"error"}, movers |-> <<>>, strongest |-> <<>>,
   all |-> <<>>, message |-> "", error |-> ScanFailedError]
RankedResponse(evaluated) ==
  [status |-> 200, keys |-> {"movers", "strongest", "all"},
   movers |-> FirstN(evaluated, MoversSize),
   strongest |-> FirstN(evaluated, StrongestSize),
   all |-> evaluated, message |-> "", error |-> ""]

\* A route that answers with the error body when nothing qualifies
respondErrorWhenEmpty(evaluated) ==
  IF Len(evaluated) = 0 THEN ErrorResponse ELSE RankedResponse(evaluated)

\* Lines 115-129
respond(evaluated) ==
  IF Len(evaluated) = 0 THEN EmptyResponse ELSE RankedResponse(evaluated)

(***************************************************************************)
(* What each world makes the pure stages compute                           *)
(***************************************************************************)
\* Lines 81-85 on the bodies a world serves when both universe fetches resolve
filterAll(w) ==
  filterTickers(fetchPerpetualSymbols(Resolved(w.exchangeInfo)).body, w.tickers)

FilteredOf == [w \in WorldNames |-> filterAll(Worlds[w])] @@ <<>>

\* Lines 96-102 on the same bodies
PreScoredOf == [w \in WorldNames |-> preScoreAndSlice(FilteredOf[w])] @@ <<>>

\* The outcome of evaluateSymbol for every ticker row of a world
evaluateAll(w) ==
  ArrayOf([s \in 1..Len(w.tickers) |->
    evaluateSymbol(normalizeTicker(w.tickers[s]), w.market[s])])

EvaluationOf == [w \in WorldNames |-> evaluateAll(Worlds[w])] @@ <<>>

(***************************************************************************)
(* The server process: overlapping GET invocations sharing the limiter     *)
(***************************************************************************)
VARIABLES
  world,        \* which world the provider serves
  budget,       \* GET invocations still to arrive
  pc,           \* per pass: "idle", "universe", "evaluating", "done"
  universe,     \* per pass and universe fetch: "unsent", "pending" or how it settled
  shortlist,    \* per pass: symbols of preScored, in order
  evalState,    \* per pass and shortlist index: "queued", "running", "settled"
  results,      \* per pass: the array Promise.all fills
  started,      \* per pass: symbols whose five fetches have been issued
  queue,        \* limiter: FIFO of waiting evaluations <<pass, index>>
  activeCount,  \* limiter: evaluations holding a slot
  response,     \* per pass: what GET answered
  call,         \* the scoring helper called in isolation, with its arguments
  ret,          \* what that call returned
  mounted,      \* page: whether the component has mounted
  data,         \* page: useState data
  loading,      \* page: useState loading
  error,        \* page: useState error
  lastUpdated,  \* page: useState lastUpdated
  requests,     \* page: per fetchData call, where it stands
  finished      \* page: the fetchData calls that ran to their end, in that order

scoringVars == <<call, ret>>
pageVars == <<mounted, data, loading, error, lastUpdated, requests, finished>>

scanVars ==
  <<world, budget, pc, universe, shortlist, evalState, results, started, queue,
    activeCount, response>>

vars == <<scanVars, scoringVars, pageVars>>

Passes == 1..MaxGets
Refreshes == 1..MaxRefreshes
UniverseFetches == {"symbols", "tickers"}
Pending == [tag |-> "pending"]

MinInt(a, b) == IF a < b THEN a ELSE b

\* A limiter that lets one evaluation more than its concurrency hold a slot
FreeSlotsOneMore(active) ==
  IF active < LimiterConcurrency + 1 THEN LimiterConcurrency + 1 - active ELSE 0

\* A limiter that keeps one of its slots idle
FreeSlotsOneFewer(active) ==
  IF active < LimiterConcurrency - 1 THEN LimiterConcurrency - 1 - active ELSE 0

\* p-limit: a queued function starts while activeCount < concurrency
FreeSlots(active) == IF active < LimiterConcurrency THEN LimiterConcurrency - active ELSE 0

\* A limiter that never starts what it has queued
AdmitNone(waiting, active) ==
  [admitted |-> <<>>, queue |-> waiting, activeCount |-> active]

\* p-limit: start queued evaluations, oldest first, while a slot is free
Admit(waiting, active) ==
  LET k == MinInt(FreeSlots(active), Len(waiting))
  IN [admitted |-> SubSeq(waiting, 1, k),
      queue |-> SubSeq(waiting, k + 1, Len(waiting)),
      activeCount |-> active + k]

\* A result array filled in completion order: the item lands at the first free index
StoreInCompletionOrder(arr, i, item) ==
  [arr EXCEPT ![CHOOSE k \in 1..Len(arr) :
                  arr[k] = Pending /\ \A j \in 1..(k - 1) : arr[j] # Pending] = item]

\* Promise.all: the result of the promise at index i lands at index i
StoreResult(arr, i, item) == [arr EXCEPT ![i] = item]

\* What a universe fetch yields, by how it settled
UniverseBody(w, f, how) ==
  IF how = "reject" THEN Rejected
  ELSE IF how = "malformed" THEN Resolved(ErrorObject)
  ELSE IF f = "symbols" THEN Resolved(Worlds[w].exchangeInfo)
  ELSE Resolved([t |-> "array", rows |-> Worlds[w].tickers])

\* Whether the promise GET awaits for universe fetch f rejects
UniverseRejects(w, f, how) ==
  IF f = "symbols" THEN fetchPerpetualSymbols(UniverseBody(w, f, how)).r = "reject"
  ELSE UniverseBody(w, f, how).r = "reject"

TypeOK ==
  /\ world \in WorldNames
  /\ budget \in 0..MaxGets
  /\ pc \in [Passes -> {"idle", "universe", "evaluating", "done"}]
  /\ activeCount \in 0..(LimiterConcurrency + 1)

\* The process before any request: the provider serves one of the given worlds
Boot(served, gets) ==
  /\ world \in served
  /\ budget = gets
  /\ pc = [p \in Passes |-> "idle"]
  /\ universe = [p \in Passes |-> [f \in UniverseFetches |-> "unsent"]]
  /\ shortlist = [p \in Passes |-> <<>>]
  /\ evalState = [p \in Passes |-> <<>>]
  /\ results = [p \in Passes |-> <<>>]
  /\ started = [p \in Passes |-> {}]
  /\ queue = <<>>
  /\ activeCount = 0
  /\ response = [p \in Passes |-> NoResponse]

\* No scoring helper has been called in isolation
NotCalled == [fn |-> "none"]
Uncalled == call = NotCalled /\ ret = NotCalled

\* The page before it mounts: the initial values of its useState hooks
\* (src/src/app/page.tsx lines 37-40)
Unmounted ==
  /\ mounted = FALSE
  /\ data = Null
  /\ loading = TRUE
  /\ error = Null
  /\ lastUpdated = Null
  /\ requests = [r \in Refreshes |-> [at |-> "unsent"]]
  /\ finished = <<>>

Init ==
  /\ \/ Boot(SmallWorlds \ {"crowded"}, MaxGets)
     \/ Boot({"crowded"}, CrowdedGets)
  /\ Uncalled
  /\ Unmounted

\* One request against the wide world
InitWide == Boot({"wide"}, 1) /\ Uncalled /\ Unmounted

\* The worlds with at most four shortlisted symbols
InitFair == Boot(SmallWorlds \ {"crowded"}, MaxGets) /\ Uncalled /\ Unmounted

\* GET is invoked: both universe fetches go out (lines 75-80)
Get(p) ==
  /\ budget > 0
  /\ pc[p] = "idle"
  /\ \A q \in 1..(p - 1) : pc[q] # "idle"
  /\ budget' = budget - 1
  /\ pc' = [pc EXCEPT ![p] = "universe"]
  /\ universe' = [universe EXCEPT ![p] = [f \in UniverseFetches |-> "pending"]]
  /\ UNCHANGED <<world, shortlist, evalState, results, started, queue, activeCount,
                 response, scoringVars, pageVars>>

RECURSIVE Running(_, _)
\* evalState once the limiter has started the admitted evaluations
Running(states, admitted) ==
  IF Len(admitted) = 0 THEN states
  ELSE Running([states EXCEPT ![admitted[1][1]][admitted[1][2]] = "running"],
               Tail(admitted))

RECURSIVE IssuedFrom(_, _, _)
IssuedFrom(sofar, lists, admitted) ==
  IF Len(admitted) = 0 THEN sofar
  ELSE IssuedFrom([sofar EXCEPT ![admitted[1][1]] = @ \cup {lists[admitted[1][1]][admitted[1][2]]}],
                  lists, Tail(admitted))
\* started once the admitted evaluations have issued their fetches
Issued(lists, admitted) == IssuedFrom(started, lists, admitted)

\* GET's continuation once both universe fetches have resolved (lines 81-110)
Shortlisted(p, tickers, filteredTickers, preScored) ==
  IF tickers.t # "array"
  THEN \* tickers.filter throws
       /\ pc' = [pc EXCEPT ![p] = "done"]
       /\ response' = [response EXCEPT ![p] = ErrorResponse]
       /\ UNCHANGED <<shortlist, evalState, results, started, queue, activeCount>>
  ELSE IF Len(filteredTickers) = 0
  THEN /\ pc' = [pc EXCEPT ![p] = "done"]
       /\ response' = [response EXCEPT ![p] = EmptyResponse]
       /\ UNCHANGED <<shortlist, evalState, results, started, queue, activeCount>>
  ELSE LET adm == Admit(queue \o [i \in 1..Len(preScored) |-> <<p, i>>], activeCount)
           lists ==
             [shortlist EXCEPT
                ![p] = [i \in 1..Len(preScored) |-> preScored[i].ticker.symbol]]
           states == [evalState EXCEPT ![p] = [i \in 1..Len(preScored) |-> "queued"]]
       IN /\ pc' = [pc EXCEPT ![p] = "evaluating"]
          /\ shortlist' = lists
          /\ evalState' = Running(states, adm.admitted)
          /\ results' = [results EXCEPT ![p] = [i \in 1..Len(preScored) |-> Pending]]
          /\ started' = Issued(lists, adm.admitted)
          /\ queue' = adm.queue
          /\ activeCount' = adm.activeCount
          /\ UNCHANGED response

\* A universe fetch of pass p settles.  The continuation of GET runs when the
\* awaited Promise.all settles: at the first rejection, or when both have resolved
\* (lines 77-110, and the catch block 130-138)
UniverseFetchSettle(p, f, how) ==
  /\ universe[p][f] = "pending"
  /\ universe' = [universe EXCEPT ![p][f] = how]
  /\ IF pc[p] # "universe"
     THEN \* the pass has answered already; the late settlement is ignored
          UNCHANGED <<pc, shortlist, evalState, results, started, queue, activeCount,
                      response>>
     ELSE IF UniverseRejects(world, f, how)
     THEN /\ pc' = [pc EXCEPT ![p] = "done"]
          /\ response' = [response EXCEPT ![p] = ErrorResponse]
          /\ UNCHANGED <<shortlist, evalState, results, started, queue, activeCount>>
     ELSE IF \E g \in UniverseFetches : universe'[p][g] = "pending"
     THEN UNCHANGED <<pc, shortlist, evalState, results, started, queue, activeCount,
                      response>>
     ELSE Shortlisted(p, UniverseBody(world, "tickers", universe'[p].tickers).body,
                      FilteredOf[world], PreScoredOf[world])
  /\ UNCHANGED <<world, budget, scoringVars, pageVars>>

\* The promise of the evaluation at index i of pass p settles with item: the limiter
\* frees the slot and starts the oldest waiting evaluation; when it was the last of
\* its pass, GET ranks and answers (lines 104-129)
Settled(p, i, item) ==
  LET adm == Admit(queue, activeCount - 1)
      states == [evalState EXCEPT ![p][i] = "settled"]
  IN /\ evalState' = Running(states, adm.admitted)
     /\ started' = Issued(shortlist, adm.admitted)
     /\ queue' = adm.queue
     /\ activeCount' = adm.activeCount
     /\ IF pc[p] # "evaluating"
        THEN UNCHANGED <<pc, results, response>>
        ELSE IF item.tag = "rejected"
        THEN \* the awaited Promise.all rejects: catch block
             /\ pc' = [pc EXCEPT ![p] = "done"]
             /\ response' = [response EXCEPT ![p] = ErrorResponse]
             /\ UNCHANGED results
        ELSE /\ results' = [results EXCEPT ![p] = StoreResult(@, i, item)]
             /\ IF \E j \in 1..Len(states[p]) : states[p][j] # "settled"
                THEN UNCHANGED <<pc, response>>
                ELSE /\ pc' = [pc EXCEPT ![p] = "done"]
                     /\ response' =
                          [response EXCEPT ![p] = respond(rankEvaluated(results'[p]))]

\* An evaluation whose outcome reads the limiter the passes share: it gives up
\* its record when other evaluations are waiting for a slot
EvalSettleUnderLoad(p, i) ==
  /\ i \in 1..Len(evalState[p])
  /\ evalState[p][i] = "running"
  /\ Settled(p, i, IF Len(queue) > 0 THEN ReturnedNull
                   ELSE CatchNull(EvaluationOf[world][shortlist[p][i]]))
  /\ UNCHANGED <<world, budget, universe, shortlist, scoringVars, pageVars>>

\* The evaluation at index i of pass p settles: its five fetches have settled and
\* evaluateSymbol ran to its end (lines 167-335)
EvalSettle(p, i) ==
  /\ i \in 1..Len(evalState[p])
  /\ evalState[p][i] = "running"
  /\ Settled(p, i, CatchNull(EvaluationOf[world][shortlist[p][i]]))
  /\ UNCHANGED <<world, budget, universe, shortlist, scoringVars, pageVars>>

Next ==
  \/ \E p \in Passes : Get(p)
  \/ \E p \in Passes, f \in UniverseFetches, how \in {"ok", "reject", "malformed"} :
       UniverseFetchSettle(p, f, how)
  \/ \E p \in Passes, i \in 1..MAX_DEEP_SYMBOLS : EvalSettle(p, i)

Spec == Init /\ [][Next]_vars

SpecWide == InitWide /\ [][Next]_vars

\* Every fetch that is pending eventually settles, one way or another
FetchesSettle ==
  /\ WF_vars(\E p \in Passes, f \in UniverseFetches, how \in {"ok", "reject", "malformed"} :
               UniverseFetchSettle(p, f, how))
  /\ WF_vars(\E p \in Passes, i \in 1..MAX_DEEP_SYMBOLS : EvalSettle(p, i))

FairSpec == InitFair /\ [][Next]_vars /\ FetchesSettle

(***************************************************************************)
(* The scoring helpers of route.ts called in isolation: one call per        *)
(* behaviour, its arguments drawn from values on both sides of every        *)
(* threshold the helper compares against.                                   *)
(***************************************************************************)
\* Arguments of determineMovementStatus (route.ts lines 363-379)
StatusInputs ==
  [volSpike1h : {Fx(1, 2000), Fx(1, 5000), Fx(1, 8000)},
   volSpike15m : {Fx(1, 1000), Fx(1, 3000), Fx(1, 8000)},
   priceChange : {Fx(0, 5000), Neg(Whole(2))},
   macdHist1h : {Fx(0, 2), Fx(0, 10), Neg(Fx(0, 10))},
   macdHist4h : {Fx(0, 10), Neg(Fx(0, 10))},
   emaTrend1h : {Fx(0, 30), Fx(0, 80), Fx(0, 200)},
   emaTrend4h : {Fx(0, 200), Neg(Fx(0, 200)), NaN},
   oiChangePct : {Fx(0, 2000), Fx(0, 4000), Whole(2)},
   breakout : {[isBreakout |-> TRUE], [isBreakout |-> FALSE]},
   longerBreakout : {[isBreakout |-> TRUE], [isBreakout |-> FALSE]},
   volatility : {Whole(1), Whole(3)},
   rsi1h : {Whole(45), Whole(50), Whole(65)},
   rsi4h : {Whole(45), Whole(55)}]

\* determineMovementStatus is called (route.ts lines 234-248)
CallDetermineMovementStatus ==
  /\ call = NotCalled
  /\ \E params \in StatusInputs :
       /\ call' = [fn |-> "determineMovementStatus", params |-> params]
       /\ ret' = determineMovementStatus(params)
  /\ UNCHANGED <<scanVars, pageVars>>

\* Arguments of the direction rule (route.ts lines 223-230)
TrendInputs == {Neg(Fx(0, 100)), Zero, Fx(0, 50), Fx(0, 100), NaN}
RsiInputs == {Whole(40), Whole(48), Whole(50), Whole(52), Whole(60), NaN}

\* The direction rule is applied (route.ts lines 223-230)
CallDeriveDirection ==
  /\ call = NotCalled
  /\ \E emaTrend1h \in TrendInputs, emaTrend4h \in TrendInputs, rsi1h \in RsiInputs :
       /\ call' = [fn |-> "deriveDirection", emaTrend1h |-> emaTrend1h,
                   emaTrend4h |-> emaTrend4h, rsi1h |-> rsi1h]
       /\ ret' = deriveDirection(emaTrend1h, emaTrend4h, rsi1h)
  /\ UNCHANGED <<scanVars, pageVars>>

\* The indicators of the end-to-end scenario: volume-spike ratio 1.8 on both
\* timeframes, open-interest delta +2 %, funding rate 0.01 %, 1h RSI 65 (or the 80
\* that rsi returns for closes that never fall), positive EMA-trend scores and MACD
\* histograms; the 24h change, the volatility, the magnitudes, the 4h RSI and the
\* breakout flags are what the scenario leaves open
ScenarioInputs ==
  [volSpike1h : {Fx(1, 8000)},
   volSpike15m : {Fx(1, 8000)},
   oiChangePct : {Whole(2)},
   fundingRatePct : {Fx(0, 100)},
   priceChange : {Fx(0, 5000), Fx(1, 5000)},
   volatility : {Fx(0, 5000), Whole(3), Fx(4, 2000), Fx(4, 3000)},
   emaTrend1h : {Fx(0, 5), Fx(0, 200), Fx(0, 2000)},
   emaTrend4h : {Fx(0, 5), Fx(0, 200), Fx(0, 2000)},
   macdHist1h : {Fx(0, 1), Fx(0, 10)},
   macdHist4h : {Fx(0, 1), Fx(0, 10)},
   rsi1h : {Whole(65), Whole(80)},
   rsi4h : {Whole(50), Whole(60)},
   breakout : {[isBreakout |-> TRUE], [isBreakout |-> FALSE]},
   longerBreakout : {[isBreakout |-> TRUE], [isBreakout |-> FALSE]}]

\* evaluateSymbol from line 223 on, with the scenario's indicators, for a ticker with
\* quoteVolume 5,000,000 and a last close of 100 (route.ts lines 223-334)
CallBuildSignal ==
  /\ call = NotCalled
  /\ \E params \in ScenarioInputs :
       /\ call' = [fn |-> "buildSignal", params |-> params]
       /\ ret' = buildSignal([symbol |-> "SCENARIOUSDT", quoteVolume |-> Num(5000000),
                              priceChangePercent |-> params.priceChange],
                             Whole(100), params,
                             [macd |-> params.macdHist1h, signal |-> Zero,
                              histogram |-> params.macdHist1h],
                             [macd |-> params.macdHist4h, signal |-> Zero,
                              histogram |-> params.macdHist4h])
  /\ UNCHANGED <<scanVars, pageVars>>

\* Arguments of deriveRiskScore (route.ts lines 470-476)
RiskInputs ==
  [volatility : {Zero, Fx(0, 5000), Whole(3), Fx(4, 2750), Whole(9), Whole(15), Infinity},
   fundingRatePct :
     {Neg(Fx(0, 5000)), Neg(Fx(0, 100)), Zero, Fx(0, 100), Fx(0, 217), Fx(0, 500), NaN},
   oiChangePct :
     {Neg(Whole(5)), Neg(Whole(1)), Zero, Fx(0, 5000), Fx(2, 1234), Whole(3), Whole(7)},
   volSpike1h : {Zero, Fx(0, 5000), Whole(1), Fx(1, 8000), Fx(2, 2000), Fx(2, 3000), Whole(5)},
   volSpike15m : {Fx(0, 5000), Fx(2, 2000), Fx(2, 3000)}]

\* deriveRiskScore is called (route.ts lines 283-289)
CallDeriveRiskScore ==
  /\ call = NotCalled
  /\ \E params \in RiskInputs :
       /\ call' = [fn |-> "deriveRiskScore", params |-> params]
       /\ ret' = deriveRiskScore(params)
  /\ UNCHANGED <<scanVars, pageVars>>

\* Arguments of deriveConfidence (route.ts line 486)
CompositeInputs ==
  {Zero, Whole(55), Whole(70), Fx(70, 1000), Whole(90), Fx(90, 1000), Whole(120)}
RiskScoreInputs == {Whole(1), Whole(4), Fx(4, 1000), Whole(6), Fx(6, 1000), Whole(10), NaN}

\* deriveConfidence is called (route.ts line 291)
CallDeriveConfidence ==
  /\ call = NotCalled
  /\ \E composite \in CompositeInputs, riskScore \in RiskScoreInputs :
       /\ call' = [fn |-> "deriveConfidence", composite |-> composite,
                   riskScore |-> riskScore]
       /\ ret' = deriveConfidence(composite, riskScore)
  /\ UNCHANGED <<scanVars, pageVars>>

\* Open-interest histories: null, or up to MaxPoints points in any order, with
\* timestamps that may repeat and open interest 0, 1000, 1010 or not a numeric string
PointInputs ==
  [timestamp : 1..MaxPoints,
   sumOpenInterest : {Str(0), Str(1000 * Scale), Str(1010 * Scale), Text}]
HistoryInputs ==
  {NullBody} \cup
  {[t |-> "array", points |-> points] :
     points \in UNION {[1..n -> PointInputs] : n \in 0..MaxPoints}}

\* The caller's array once calculateOpenInterestDelta has returned: line 339 sorts a
\* copy ([...points]), the array that was passed keeps its order
pointsAfterCall(history) == history

\* calculateOpenInterestDelta is called (route.ts line 202)
CallCalculateOpenInterestDelta ==
  /\ call = NotCalled
  /\ \E history \in HistoryInputs :
       /\ call' = [fn |-> "calculateOpenInterestDelta", history |-> history,
                   after |-> pointsAfterCall(history)]
       /\ ret' = calculateOpenInterestDelta(history)
  /\ UNCHANGED <<scanVars, pageVars>>

\* Volatility values on both sides of 1.8 (volatility / 150 = 0.012) and of 2.1
\* (volatility / 150 = 0.014)
VolatilityInputs ==
  {Neg(Whole(1)), Zero, Fx(0, 5000), Fx(1, 7000), Fx(1, 8000), Fx(1, 9500), Whole(2),
   Fx(2, 1000), Fx(2, 2000), Whole(3), Whole(50), Infinity, NaN}

\* The take-profit and stop multipliers are computed (route.ts lines 259-264)
CallTradeMultipliers ==
  /\ call = NotCalled
  /\ \E direction \in {"Long", "Short"}, volatility \in VolatilityInputs :
       /\ call' = [fn |-> "tradeMultipliers", direction |-> direction,
                   volatility |-> volatility]
       /\ ret' = [tpMultipliers |-> tpMultipliers(direction),
                  stopMultiplier |-> stopMultiplier(direction, volatility)]
  /\ UNCHANGED <<scanVars, pageVars>>

\* No request arrives; a scoring helper is called on its own
InitScoring == Boot({"quiet"}, 0) /\ Uncalled /\ Unmounted

NextScoring ==
  \/ CallDetermineMovementStatus
  \/ CallDeriveDirection
  \/ CallBuildSignal
  \/ CallDeriveRiskScore
  \/ CallDeriveConfidence
  \/ CallCalculateOpenInterestDelta
  \/ CallTradeMultipliers

SpecScoring == InitScoring /\ [][NextScoring]_vars

(***************************************************************************)
(* The polling page (src/src/app/page.tsx): fetchData is called on mount,   *)
(* by the 60-second interval and by the refresh button; calls overlap, and  *)
(* each runs in three tasks: up to the fetch, up to res.json(), to the end. *)
(* The page stays mounted.                                                  *)
(***************************************************************************)
\* src/src/app/page.tsx line 34, in milliseconds
REFRESH_INTERVAL == 60000

\* The body of a successful scan, told apart by its timestamp
ScanBody(t) == [j |-> "object", timestamp |-> t, error |-> Undefined]
\* An Error's message
Message(s) == [j |-> "string", s |-> s]
\* new Date(timestamp)
DateOf(t) == [j |-> "date", v |-> t]

\* fetchData up to its first await: setLoading(true) and the request goes out
\* (lines 43-45)
BeginFetchData ==
  /\ \E r \in Refreshes :
       /\ requests[r].at = "unsent"
       /\ \A q \in 1..(r - 1) : requests[q].at # "unsent"
       /\ requests' = [requests EXCEPT ![r] = [at |-> "fetching"]]
  /\ loading' = TRUE
  /\ UNCHANGED <<data, error, lastUpdated, finished>>

\* The component mounts: the first effect calls fetchData, the second arms the
\* interval (lines 65-74)
Mount ==
  /\ ~mounted
  /\ mounted' = TRUE
  /\ BeginFetchData
  /\ UNCHANGED <<scanVars, scoringVars>>

\* The interval fires after REFRESH_INTERVAL (lines 70-72)
TimerTick ==
  /\ mounted
  /\ BeginFetchData
  /\ UNCHANGED <<mounted, scanVars, scoringVars>>

\* The refresh button is clicked (lines 101-107)
Click ==
  /\ mounted
  /\ BeginFetchData
  /\ UNCHANGED <<mounted, scanVars, scoringVars>>

\* The catch and finally blocks of call r (lines 54-61)
Fail(r, message) ==
  /\ error' = message
  /\ loading' = FALSE
  /\ requests' = [requests EXCEPT ![r] = [at |-> "done"]]
  /\ finished' = Append(finished, [id |-> r, ok |-> FALSE])
  /\ UNCHANGED <<data, lastUpdated>>

\* A success path that leaves the error of an earlier call in place
SucceedKeepingError(r, body) ==
  /\ data' = body
  /\ lastUpdated' = DateOf(body.timestamp)
  /\ loading' = FALSE
  /\ requests' = [requests EXCEPT ![r] = [at |-> "done"]]
  /\ finished' = Append(finished, [id |-> r, ok |-> TRUE])
  /\ UNCHANGED error

\* The end of the try block of call r and its finally block (lines 51-53, 59-61)
Succeed(r, body) ==
  /\ data' = body
  /\ lastUpdated' = DateOf(body.timestamp)
  /\ error' = Null
  /\ loading' = FALSE
  /\ requests' = [requests EXCEPT ![r] = [at |-> "done"]]
  /\ finished' = Append(finished, [id |-> r, ok |-> TRUE])

\* The fetch of call r settles: it rejects, or resolves with a status that is not
\* ok (both end the call in the catch block), or resolves ok and the call goes on
\* to await res.json() (lines 45-49)
PageFetchSettle(r, how) ==
  /\ requests[r].at = "fetching"
  /\ IF how = "reject" THEN Fail(r, Message("Failed to fetch"))
     ELSE IF how = "notok" THEN Fail(r, Message("Scan failed (500)"))
     ELSE /\ requests' = [requests EXCEPT ![r] = [at |-> "parsing"]]
          /\ UNCHANGED <<data, loading, error, lastUpdated, finished>>
  /\ UNCHANGED <<mounted, scanVars, scoringVars>>

\* res.json() of call r settles: it rejects, or yields a body with an error field,
\* or yields a scan (lines 49-53)
JsonSettle(r, what) ==
  /\ requests[r].at = "parsing"
  /\ IF what = "reject" THEN Fail(r, Message("Unexpected end of JSON input"))
     ELSE IF what = "error" THEN Fail(r, Message("Failed to complete scan."))
     ELSE Succeed(r, ScanBody(r))
  /\ UNCHANGED <<mounted, scanVars, scoringVars>>

\* No scan request and no helper call: only the page runs
InitPage == Boot({"quiet"}, 0) /\ Uncalled /\ Unmounted

NextPage ==
  \/ Mount
  \/ TimerTick
  \/ Click
  \/ \E r \in Refreshes, how \in {"ok", "notok", "reject"} : PageFetchSettle(r, how)
  \/ \E r \in Refreshes, what \in {"scan", "error", "reject"} : JsonSettle(r, what)

SpecPage == InitPage /\ [][NextPage]_vars

\* ---------------------------------------------------------------------------
\* Properties

\* The evaluations of all passes that are in the given state
EvaluationsIn(st) ==
  UNION {{<<p, i>> : i \in {k \in 1..Len(evalState[p]) : evalState[p][k] = st}} :
           p \in Passes}

\* C1: at every moment at most 6 evaluateSymbol calls, over all overlapping passes
\* together, have started and not settled; an evaluation waits only while all six
\* slots are taken, and a waiting symbol has had none of its fetches issued.
C1_LimiterCap ==
  /\ Cardinality(EvaluationsIn("running")) <= LimiterConcurrency
  /\ EvaluationsIn("queued") # {} =>
       Cardinality(EvaluationsIn("running")) = LimiterConcurrency
  /\ \A pi \in EvaluationsIn("queued") : shortlist[pi[1]][pi[2]] \notin started[pi[1]]
  /\ \A pi \in EvaluationsIn("running") \cup EvaluationsIn("settled") :
       shortlist[pi[1]][pi[2]] \in started[pi[1]]

\* Two overlapping passes fill the six slots and leave evaluations of both waiting
C1_Witness ==
  /\ Cardinality(EvaluationsIn("running")) = LimiterConcurrency
  /\ \E p \in Passes, q \in Passes :
       /\ p # q
       /\ \E i \in 1..Len(evalState[p]) : evalState[p][i] = "running"
       /\ \E j \in 1..Len(evalState[q]) : evalState[q][j] = "queued"
       /\ \E j \in 1..Len(evalState[q]) : evalState[q][j] = "running"

\* What evaluateSymbol makes of the shortlisted symbol at index i of pass p, from
\* that symbol's own ticker row and its own five fetches
OwnOutcome(p, i) == EvaluationOf[world][shortlist[p][i]]

Qualifies(outcome) ==
  outcome.tag = "record" /\ Ge(outcome.rec.compositeScore, Whole(ScoreFloor))

\* Pass p ran its evaluations and has answered
AnsweredAfterEvaluating(p) == pc[p] = "done" /\ Len(shortlist[p]) > 0

SymbolsOf(list) == {list[k].symbol : k \in 1..Len(list)}

\* C2: when a fetch of a shortlisted symbol fails (rejects, or yields a payload
\* that makes evaluateSymbol throw), the pass still answers with a non-error
\* response, the failing symbol is in none of its lists, and every other
\* shortlisted symbol that qualifies by its own data is listed once, with exactly
\* the record its own data gives.
C2_FailureDropsOnlyThatSymbol ==
  \A p \in Passes :
    (AnsweredAfterEvaluating(p) /\ \E i \in 1..Len(shortlist[p]) : OwnOutcome(p, i) = Threw)
    => /\ response[p].status = 200
       /\ "error" \notin response[p].keys
       /\ \A i \in 1..Len(shortlist[p]) :
            IF Qualifies(OwnOutcome(p, i))
            THEN Cardinality({k \in 1..Len(response[p].all) :
                                response[p].all[k] = OwnOutcome(p, i).rec}) = 1
            ELSE shortlist[p][i] \notin SymbolsOf(response[p].all)
       /\ Len(response[p].all) =
            Cardinality({i \in 1..Len(shortlist[p]) : Qualifies(OwnOutcome(p, i))})

\* A pass has answered with two symbols listed although a fetch of a third failed
C2_Witness ==
  \E p \in Passes :
    /\ AnsweredAfterEvaluating(p)
    /\ \E i \in 1..Len(shortlist[p]) : OwnOutcome(p, i) = Threw
    /\ response[p].status = 200
    /\ Len(response[p].all) >= 2

\* C3: provided pending fetches eventually settle, every invoked pass eventually
\* answers, whatever fails and in whatever order the fetches complete; every
\* shortlisted symbol eventually gets a limiter slot and every evaluation
\* eventually settles; and a pass answers once: its response never changes.
C3_PassAlwaysReturns ==
  /\ \A p \in Passes : (pc[p] = "universe") ~> (pc[p] = "done" /\ response[p].status # 0)
  /\ \A p \in Passes :
       (pc[p] = "evaluating") ~>
         (\A i \in 1..Len(evalState[p]) : evalState[p][i] = "settled")
  /\ [][\A p \in Passes :
          /\ response[p] # NoResponse => response'[p] = response[p]
          /\ (pc[p] = "done") = (response[p] # NoResponse)]_vars

\* A pass whose evaluations had to wait for a slot has answered
C3_Witness ==
  \E p \in Passes :
    /\ \E i \in 1..Len(shortlist[p]) : OwnOutcome(p, i) = Threw
    /\ \A q \in Passes :
         pc[q] = "done" /\ Len(shortlist[q]) > 0 /\ response[q].status = 200

\* Index of a symbol in the shortlist of pass p
ShortlistIndex(p, symbol) == CHOOSE i \in 1..Len(shortlist[p]) : shortlist[p][i] = symbol

IsPrefix(a, b) == Len(a) <= Len(b) /\ \A k \in 1..Len(a) : a[k] = b[k]

SortedByComposite(list) ==
  \A k \in 1..(Len(list) - 1) : Ge(list[k].compositeScore, list[k + 1].compositeScore)

\* C4: for fixed fetch responses the ranked list does not depend on the order in
\* which the evaluations complete: it is sorted by composite score descending,
\* equal scores stand in shortlist order, and any two passes over the same
\* responses, whatever their completion orders, list the same symbols in the same
\* order.
C4_OrderIsDeterministic ==
  /\ \A p \in Passes :
       AnsweredAfterEvaluating(p) =>
         /\ SortedByComposite(response[p].all)
         /\ \A k \in 1..(Len(response[p].all) - 1) :
              StrictEq(response[p].all[k].compositeScore,
                       response[p].all[k + 1].compositeScore)
              => ShortlistIndex(p, response[p].all[k].symbol)
                   < ShortlistIndex(p, response[p].all[k + 1].symbol)
  /\ \A p \in Passes, q \in Passes :
       (AnsweredAfterEvaluating(p) /\ AnsweredAfterEvaluating(q))
       => response[p].all = response[q].all

\* One pass has answered with two equal scores in a row while, over the same
\* responses, the evaluations of another complete out of shortlist order
C4_Witness ==
  \E p \in Passes, q \in Passes :
    /\ AnsweredAfterEvaluating(p)
    /\ \E k \in 1..(Len(response[p].all) - 1) :
         StrictEq(response[p].all[k].compositeScore,
                  response[p].all[k + 1].compositeScore)
    /\ pc[q] = "evaluating"
    /\ \E i \in 1..Len(results[q]), j \in 1..Len(results[q]) :
         /\ i < j
         /\ results[q][i] = Pending
         /\ Qualifies(results[q][j])
         /\ Qualifies(OwnOutcome(q, i))
         /\ StrictEq(OwnOutcome(q, i).rec.compositeScore, results[q][j].rec.compositeScore)

\* C5: in every successful response movers has at most 5 entries and strongest at
\* most 3, strongest is a prefix of movers and movers a prefix of the full ranked
\* list, the lists are sorted by composite score descending, every entry scores
\* at least 55, and the full list holds every evaluated symbol that scores at
\* least 55, so that nothing that outranks a listed entry is left out.
C5_RankingFunnel ==
  \A p \in Passes :
    (pc[p] = "done" /\ response[p].status = 200)
    => /\ Len(response[p].movers) = MinInt(MoversSize, Len(response[p].all))
       /\ Len(response[p].strongest) = MinInt(StrongestSize, Len(response[p].all))
       /\ IsPrefix(response[p].strongest, response[p].movers)
       /\ IsPrefix(response[p].movers, response[p].all)
       /\ SortedByComposite(response[p].all)
       /\ \A k \in 1..Len(response[p].all) :
            Ge(response[p].all[k].compositeScore, Whole(ScoreFloor))
       /\ \A i \in 1..Len(shortlist[p]) :
            Qualifies(OwnOutcome(p, i)) => OwnOutcome(p, i).rec.symbol \in SymbolsOf(response[p].all)

\* A response whose full list is longer than movers, and movers longer than strongest
C5_Witness ==
  \E p \in Passes :
    /\ pc[p] = "done"
    /\ response[p].status = 200
    /\ Len(response[p].all) > MoversSize
    /\ Len(response[p].movers) = MoversSize
    /\ Len(response[p].strongest) = StrongestSize
    /\ \E i \in 1..Len(shortlist[p]) :
         OwnOutcome(p, i).tag = "record" /\ ~Qualifies(OwnOutcome(p, i))

\* How the universe fetches of pass p went
UniverseFailed(p) == \E f \in UniverseFetches : universe[p][f] \in {"reject", "malformed"}

\* C6: a pass answers with the error signal (status 500, an error field) exactly
\* when its symbol-list fetch or its ticker-batch fetch failed; the error body
\* shares neither status nor fields with the successful-but-empty body; and a pass
\* that got as far as evaluating symbols never answers with the error, whatever
\* fails or is dropped among them.
C6_OnlyUniverseFailureIsAnError ==
  \A p \in Passes :
    pc[p] = "done"
    => /\ response[p].status \in {200, 500}
       /\ (response[p].status = 500) = UniverseFailed(p)
       /\ (response[p].status = 500) = ("error" \in response[p].keys)
       /\ response[p].status = 500 => response[p].keys = {"error"}
       /\ response[p].status = 200 => {"movers", "strongest"} \subseteq response[p].keys
       /\ Len(shortlist[p]) > 0 => response[p].status = 200

\* One pass failed on a universe fetch; another, over the same world, found nothing
\* although one of its symbols threw and another was dropped for lack of bars
C6_Witness ==
  \E p \in Passes, q \in Passes :
    /\ pc[p] = "done" /\ response[p].status = 500 /\ response[p].error = ScanFailedError
    /\ pc[q] = "done" /\ response[q].status = 200 /\ response[q].message = NoCandidateMessage
    /\ \E i \in 1..Len(shortlist[q]) : OwnOutcome(q, i) = Threw
    /\ \E i \in 1..Len(shortlist[q]) : OwnOutcome(q, i) = ReturnedNull

\* Whether the 1h or the 4h series the provider serves for ticker row s of the
\* current world is an array of fewer than 30 bars
ShortTrendSeries(s) ==
  LET served == Worlds[world].market[s]
  IN /\ \A f \in AllFetches : served[f].r = "ok"
     /\ served.klines1h.body.t = "array"
     /\ served.klines4h.body.t = "array"
     /\ \/ Len(served.klines1h.body.bars) < MinTrendBars
        \/ Len(served.klines4h.body.bars) < MinTrendBars

\* C7: a shortlisted symbol whose 1h or 4h series has fewer than 30 bars is left
\* out without any error: its evaluation returns null rather than throwing, the
\* pass answers 200, the symbol is in no list, and every sibling that qualifies
\* by its own data is listed.
C7_ShortSeriesSilentlyExcluded ==
  \A p \in Passes :
    AnsweredAfterEvaluating(p)
    => \A i \in 1..Len(shortlist[p]) :
         ShortTrendSeries(shortlist[p][i])
         => /\ OwnOutcome(p, i) = ReturnedNull
            /\ response[p].status = 200
            /\ shortlist[p][i] \notin SymbolsOf(response[p].all)
            /\ shortlist[p][i] \notin SymbolsOf(response[p].movers)
            /\ \A j \in 1..Len(shortlist[p]) :
                 Qualifies(OwnOutcome(p, j))
                 => OwnOutcome(p, j).rec \in {response[p].all[k] : k \in 1..Len(response[p].all)}

\* A pass has answered with siblings listed while a symbol with 29 bars on its 4h
\* series is absent
C7_Witness ==
  \E p \in Passes :
    /\ AnsweredAfterEvaluating(p)
    /\ \E i \in 1..Len(shortlist[p]) :
         /\ ShortTrendSeries(shortlist[p][i])
         /\ Len(Worlds[world].market[shortlist[p][i]].klines4h.body.bars) = MinTrendBars - 1
         /\ Len(Worlds[world].market[shortlist[p][i]].klines1h.body.bars) >= MinTrendBars
    /\ Len(response[p].movers) >= 2

\* The ticker rows of a world that are listed as trading USDT perpetuals and whose
\* quote volume is strictly above the liquidity floor, read off the served bodies
EligibleRows(w) ==
  {s \in 1..Len(w.tickers) :
     /\ \E l \in 1..Len(w.exchangeInfo.symbols) :
          /\ w.exchangeInfo.symbols[l].symbol = w.tickers[s].symbol
          /\ w.exchangeInfo.symbols[l].contractType = "PERPETUAL"
          /\ w.exchangeInfo.symbols[l].status = "TRADING"
          /\ w.exchangeInfo.symbols[l].quoteAsset = "USDT"
     /\ Gt(ToNumber(w.tickers[s].quoteVolume), Num(LiquidityFloor))}

EligibleOf == [w \in WorldNames |-> EligibleRows(Worlds[w])] @@ <<>>

\* The pre-score of every ticker row of a world
RowPreScores(w) ==
  ArrayOf([s \in 1..Len(w.tickers) |-> preScoreTicker(normalizeTicker(w.tickers[s]))])

RowPreScoreOf == [w \in WorldNames |-> RowPreScores(Worlds[w])] @@ <<>>

ShortlistedSymbols(p) == {shortlist[p][i] : i \in 1..Len(shortlist[p])}

\* C8: a pass starts deep evaluation for at most 25 symbols however many tickers
\* there are; fetches are issued only for shortlisted symbols; the shortlist holds
\* min(25, number of eligible rows) distinct symbols, all of them tradable with
\* quote volume strictly above 2,000,000; no eligible symbol left out has a higher
\* pre-score than one taken; and a pass that has answered evaluated all of them.
C8_AtMostTwentyFiveBestPreScores ==
  \A p \in Passes :
    /\ Cardinality(started[p]) <= MAX_DEEP_SYMBOLS
    /\ started[p] \subseteq ShortlistedSymbols(p)
    /\ ShortlistedSymbols(p) \subseteq EligibleOf[world]
    /\ Len(shortlist[p]) > 0 =>
         /\ Len(shortlist[p]) = MinInt(MAX_DEEP_SYMBOLS, Cardinality(EligibleOf[world]))
         /\ Cardinality(ShortlistedSymbols(p)) = Len(shortlist[p])
         /\ \A e \in EligibleOf[world] \ ShortlistedSymbols(p) :
              \A i \in 1..Len(shortlist[p]) :
                ~Gt(RowPreScoreOf[world][e], RowPreScoreOf[world][shortlist[p][i]])
    /\ AnsweredAfterEvaluating(p) => started[p] = ShortlistedSymbols(p)
    /\ (pc[p] = "done" /\ response[p].status = 200 /\ EligibleOf[world] # {})
         => Len(shortlist[p]) > 0

\* A pass over more than 25 eligible tickers has answered after 25 evaluations; an
\* eligible ticker was left out on a pre-score tie, one at the floor was never eligible
C8_Witness ==
  \E p \in Passes :
    /\ AnsweredAfterEvaluating(p)
    /\ Cardinality(started[p]) = MAX_DEEP_SYMBOLS
    /\ Cardinality(EligibleOf[world]) > MAX_DEEP_SYMBOLS
    /\ \E e \in EligibleOf[world] \ ShortlistedSymbols(p) :
         \E i \in 1..Len(shortlist[p]) :
           StrictEq(RowPreScoreOf[world][e], RowPreScoreOf[world][shortlist[p][i]])
    /\ \E s \in 1..Len(Worlds[world].tickers) :
         /\ StrictEq(ToNumber(Worlds[world].tickers[s].quoteVolume), Num(LiquidityFloor))
         /\ s \notin EligibleOf[world]

\* C9: when every shortlisted symbol is dropped or scores below 55, and when no
\* ticker passes the tradable and liquidity filter, the pass answers 200 with empty
\* movers, empty strongest and the no-candidate message, and no error; the message
\* is present only in responses whose movers is empty.
C9_NothingQualifiesIsNotAnError ==
  \A p \in Passes :
    pc[p] = "done"
    => /\ ( /\ ~UniverseFailed(p)
            /\ \A i \in 1..Len(shortlist[p]) : ~Qualifies(OwnOutcome(p, i)) )
          => /\ response[p].status = 200
             /\ response[p].movers = <<>>
             /\ response[p].strongest = <<>>
             /\ "message" \in response[p].keys
             /\ response[p].message = NoCandidateMessage
             /\ "error" \notin response[p].keys
       /\ "message" \in response[p].keys => response[p].movers = <<>>
       /\ (response[p].status = 200 /\ response[p].movers = <<>>)
            => "message" \in response[p].keys

\* A pass has answered with the message after one symbol scored below the floor and
\* the others were dropped
C9_Witness ==
  \E p \in Passes :
    /\ AnsweredAfterEvaluating(p)
    /\ response[p].message = NoCandidateMessage
    /\ response[p].movers = <<>>
    /\ \E i \in 1..Len(shortlist[p]) :
         OwnOutcome(p, i).tag = "record" /\ ~Qualifies(OwnOutcome(p, i))
    /\ \E i \in 1..Len(shortlist[p]) : OwnOutcome(p, i).tag # "record"

MetadataFields ==
  {"rsi1h", "rsi4h", "macd1h", "macdHistogram1h", "macd4h", "macdHistogram4h",
   "emaTrend1h", "emaTrend4h", "volumeSpikeRatio", "openInterestDeltaPct",
   "fundingRatePct", "volatilityPct", "priceChange24h"}

\* Whether every numeric output field of an EvaluatedSymbol is a finite number
FiniteOutputs(rec) ==
  /\ IsFinite(rec.compositeScore)
  /\ IsFinite(rec.riskScore)
  /\ IsFinite(rec.entry)
  /\ IsFinite(rec.stopLoss)
  /\ \A k \in 1..Len(rec.takeProfits) : IsFinite(rec.takeProfits[k])
  /\ \A m \in MetadataFields : IsFinite(rec.metadata[m])

\* C10: no EvaluatedSymbol in a scan response carries NaN or an infinite value in
\* a numeric output field, whatever the fetched bodies hold.
C10_NoNonFiniteOutput ==
  \A p \in Passes :
    \A k \in 1..Len(response[p].all) : FiniteOutputs(response[p].all[k])

\* C11: two passes that were given the same fetch responses answer with the same
\* response (status, lists and message; the timestamp is left out), whatever other
\* pass ran before or alongside them and in whatever order their evaluations
\* completed, and every record a pass lists is the record that symbol's own ticker
\* and fetched series give.
C11_PassesDoNotInterfere ==
  /\ \A p \in Passes, q \in Passes :
       (pc[p] = "done" /\ pc[q] = "done" /\ universe[p] = universe[q])
       => response[p] = response[q]
  /\ \A p \in Passes :
       AnsweredAfterEvaluating(p) =>
         \A k \in 1..Len(response[p].all) :
           LET own == OwnOutcome(p, ShortlistIndex(p, response[p].all[k].symbol))
           IN Qualifies(own) /\ response[p].all[k] = own.rec

\* Two passes over the same responses have both answered with a ranked list of two
\* or more records
C11_Witness ==
  \E p \in Passes, q \in Passes :
    /\ p # q
    /\ AnsweredAfterEvaluating(p) /\ AnsweredAfterEvaluating(q)
    /\ universe[p] = universe[q]
    /\ Len(response[p].all) >= 2
    /\ Len(response[q].all) >= 2

\* Whether two numbers have the same sign: both positive, both negative or both
\* zero
SignsAgree(a, b) ==
  /\ ~IsNaN(a) /\ ~IsNaN(b)
  /\ \/ a.v > 0 /\ b.v > 0
     \/ a.v < 0 /\ b.v < 0
     \/ a.v = 0 /\ b.v = 0

\* C12: determineMovementStatus returns one of the three labels for every input:
\* "Moving Now" whenever the strong-momentum conjunction holds or both breakout
\* flags are set with volatility above 2.5, even if the About To Move condition
\* holds too; otherwise "About To Move" exactly when aligned momentum, EMA-trend
\* sign agreement, MACD-histogram sign agreement and RSI bias agreement all hold;
\* otherwise "Likely in 24H".
C12_FirstMatchingTier ==
  call.fn = "determineMovementStatus" =>
    LET a == call.params
        strong ==
          /\ Gt(a.volSpike1h, Fx(1, 6000)) /\ Gt(a.volSpike15m, Fx(1, 4000))
          /\ Gt(MathAbs(a.priceChange), Whole(1))
          /\ SignsAgree(a.macdHist1h, a.macdHist4h)
          /\ Gt(MathAbs(a.emaTrend1h), Fx(0, 100))
          /\ Gt(MathAbs(a.emaTrend4h), Fx(0, 100))
          /\ Gt(MathAbs(a.oiChangePct), Fx(0, 5000))
        brokeOut ==
          /\ a.breakout.isBreakout /\ a.longerBreakout.isBreakout
          /\ Gt(a.volatility, Fx(2, 5000))
        aligned ==
          \/ /\ Gt(a.volSpike1h, Fx(1, 3000))
             /\ Gt(MathAbs(a.emaTrend1h), Fx(0, 60))
             /\ Gt(MathAbs(a.macdHist1h), Fx(0, 5))
          \/ /\ Gt(a.volSpike15m, Fx(1, 2000))
             /\ Gt(MathAbs(a.oiChangePct), Fx(0, 3000))
        aboutToMove ==
          /\ aligned
          /\ SignsAgree(a.emaTrend1h, a.emaTrend4h)
          /\ SignsAgree(a.macdHist1h, a.macdHist4h)
          /\ \/ Gt(a.rsi1h, Whole(52)) /\ Gt(a.rsi4h, Whole(50))
             \/ Lt(a.rsi1h, Whole(48)) /\ Lt(a.rsi4h, Whole(50))
    IN /\ ret \in {"Moving Now", "About To Move", "Likely in 24H"}
       /\ (strong \/ brokeOut) => ret = "Moving Now"
       /\ (~strong /\ ~brokeOut /\ aboutToMove) => ret = "About To Move"
       /\ (~strong /\ ~brokeOut /\ ~aboutToMove) => ret = "Likely in 24H"

\* A call in which the strong-momentum conjunction and the About To Move condition
\* both hold has returned
C12_Witness ==
  /\ call.fn = "determineMovementStatus"
  /\ ret = "Moving Now"
  /\ ~(call.params.breakout.isBreakout /\ call.params.longerBreakout.isBreakout)
  /\ Gt(call.params.volSpike15m, Fx(1, 4000))
  /\ Gt(call.params.rsi1h, Whole(52)) /\ Gt(call.params.rsi4h, Whole(50))
  /\ Gt(call.params.emaTrend4h, Zero)
  /\ Gt(call.params.macdHist1h, Zero) /\ Gt(call.params.macdHist4h, Zero)

\* C13: the direction is Long or Short for every input: Long if both EMA-trend
\* scores are non-negative and the 1h RSI is at least 48 (also when the Short rule
\* matches too: both scores zero and RSI within [48, 52]); Short if both are
\* non-positive and the RSI is at most 52; otherwise Long if the 1h score is the
\* larger or the two are equal, Short if the 4h score is the larger.
C13_DirectionRule ==
  call.fn = "deriveDirection" =>
    LET longRule ==
          Ge(call.emaTrend1h, Zero) /\ Ge(call.emaTrend4h, Zero) /\ Ge(call.rsi1h, Whole(48))
        shortRule ==
          Le(call.emaTrend1h, Zero) /\ Le(call.emaTrend4h, Zero) /\ Le(call.rsi1h, Whole(52))
    IN /\ ret \in {"Long", "Short"}
       /\ longRule => ret = "Long"
       /\ (shortRule /\ ~longRule) => ret = "Short"
       /\ (~longRule /\ ~shortRule /\ Gt(call.emaTrend1h, call.emaTrend4h)) => ret = "Long"
       /\ (~longRule /\ ~shortRule /\ StrictEq(call.emaTrend1h, call.emaTrend4h))
            => ret = "Long"
       /\ (~longRule /\ ~shortRule /\ Lt(call.emaTrend1h, call.emaTrend4h)) => ret = "Short"

\* The rule has been applied to two zero trend scores with the RSI at 50, where
\* both the Long and the Short rule match
C13_Witness ==
  /\ call.fn = "deriveDirection"
  /\ call.emaTrend1h = Zero /\ call.emaTrend4h = Zero /\ call.rsi1h = Whole(50)
  /\ ret = "Long"

TierFor(composite, riskScore, confidence) ==
  /\ confidence \in {"High", "Medium", "Low"}
  /\ confidence = "High" <=> (Gt(composite, Whole(90)) /\ Le(riskScore, Whole(4)))
  /\ confidence = "Medium"
       <=> /\ ~(Gt(composite, Whole(90)) /\ Le(riskScore, Whole(4)))
           /\ Gt(composite, Whole(70)) /\ Le(riskScore, Whole(6))

\* C15: for every numeric input with volatility >= 0 deriveRiskScore returns a
\* value within [1, 10] that has at most one decimal; confidence is High only if
\* composite > 90 and risk <= 4, Medium only if composite > 70 and risk <= 6, and
\* Low otherwise, both for deriveConfidence on its own and for the composite and
\* risk score a symbol's record carries.
C15_RiskClampedAndConfidenceTiers ==
  /\ (/\ call.fn = "deriveRiskScore"
      /\ ~IsNaN(call.params.fundingRatePct))
     => /\ IsFinite(ret)
        /\ Scale <= ret.v /\ ret.v <= 10 * Scale
        /\ ret.v % (Scale \div 10) = 0
  /\ call.fn = "deriveConfidence" => TierFor(call.composite, call.riskScore, ret)
  /\ call.fn = "buildSignal"
     => /\ TierFor(ret.compositeScore, ret.riskScore, ret.confidence)
        /\ Scale <= ret.riskScore.v /\ ret.riskScore.v <= 10 * Scale
        /\ ret.riskScore.v % (Scale \div 10) = 0

\* deriveRiskScore has been called with terms that add up to 17 and has returned 10
C15_Witness ==
  /\ call.fn = "deriveRiskScore"
  /\ call.params.volatility = Whole(15)
  /\ call.params.fundingRatePct = Fx(0, 500)
  /\ call.params.oiChangePct = Zero
  /\ call.params.volSpike1h = Fx(0, 5000)
  /\ call.params.volSpike15m = Fx(0, 5000)
  /\ ret = Whole(10)

\* The points of history h carry pairwise distinct timestamps
DistinctTimestamps(h) ==
  \A i \in 1..Len(h.points), j \in 1..Len(h.points) :
    i # j => h.points[i].timestamp # h.points[j].timestamp

\* The percentage change from the second-latest to the latest point of h by
\* timestamp, 0 when the second-latest open interest is 0
ChangeToLatest(h) ==
  LET n == Len(h.points)
      last == CHOOSE i \in 1..n : \A j \in 1..n : h.points[j].timestamp <= h.points[i].timestamp
      before ==
        CHOOSE i \in (1..n) \ {last} :
          \A j \in (1..n) \ {last} : h.points[j].timestamp <= h.points[i].timestamp
      latest == ToNumber(h.points[last].sumOpenInterest)
      prev == ToNumber(h.points[before].sumOpenInterest)
  IN IF StrictEq(prev, Zero) THEN Zero ELSE MulK(Over(Sub(latest, prev), prev), 100)

\* C16: calculateOpenInterestDelta does not depend on the order the provider sent
\* the points in: for a history of two or more points with distinct timestamps it
\* returns the percentage change from the second-latest to the latest point by
\* timestamp, and so does every permutation of the history; it returns 0 for null,
\* for fewer than two points and for a zero previous value; the caller's array is
\* in the order it was passed.
C16_DeltaIgnoresProviderOrder ==
  call.fn = "calculateOpenInterestDelta" =>
    LET h == call.history
    IN /\ call.after = h
       /\ (h.t = "null" \/ Len(h.points) < 2) => ret = Zero
       /\ (h.t = "array" /\ Len(h.points) >= 2 /\ DistinctTimestamps(h))
          => /\ ret = ChangeToLatest(h)
             /\ \A perm \in Permutations(1..Len(h.points)) :
                  calculateOpenInterestDelta(
                    [t |-> "array",
                     points |-> [k \in 1..Len(h.points) |-> h.points[perm[k]]]]) = ret

\* A history of three points that the provider sent latest first has given the
\* change from 1000 to 1010, 1 %
C16_Witness ==
  /\ call.fn = "calculateOpenInterestDelta"
  /\ call.history.t = "array"
  /\ Len(call.history.points) = 3
  /\ call.history.points[1] = [timestamp |-> 3, sumOpenInterest |-> Str(1010 * Scale)]
  /\ call.history.points[2] = [timestamp |-> 1, sumOpenInterest |-> Str(0)]
  /\ call.history.points[3] = [timestamp |-> 2, sumOpenInterest |-> Str(1000 * Scale)]
  /\ ret = Whole(1)

\* C17: for every numeric volatility and both directions the stop multiplier puts
\* the stop on the adverse side of the last price, between 1.2 % and 1.4 % away
\* from it (Long: within [0.986, 0.988]; Short: within [1.012, 1.014]), and the
\* three take-profit multipliers lie on the favourable side (Long: 1.006, 1.012,
\* 1.02; Short: 0.994, 0.988, 0.978), all before tick-size rounding.
C17_StopAndTargetsStraddleEntry ==
  (call.fn = "tradeMultipliers" /\ ~IsNaN(call.volatility)) =>
    /\ IsFinite(ret.stopMultiplier)
    /\ call.direction = "Long"
       => /\ 9860 <= ret.stopMultiplier.v /\ ret.stopMultiplier.v <= 9880
          /\ ret.tpMultipliers = <<Num(10060), Num(10120), Num(10200)>>
    /\ call.direction = "Short"
       => /\ 10120 <= ret.stopMultiplier.v /\ ret.stopMultiplier.v <= 10140
          /\ ret.tpMultipliers = <<Num(9940), Num(9880), Num(9780)>>

\* The Long multipliers have been computed at volatility 3 %, where volatility / 150
\* = 0.02 would put the stop 2 % away: the stop multiplier is 0.986
C17_Witness ==
  /\ call.fn = "tradeMultipliers"
  /\ call.direction = "Long"
  /\ call.volatility = Whole(3)
  /\ ret.stopMultiplier = Num(9860)

\* The limiter's books agree with the evaluations: a slot is held by exactly the
\* evaluations in flight, the queue holds exactly the waiting ones, and whenever one
\* waits all six slots are held
SlotsMatchEvaluations ==
  /\ activeCount = Cardinality(EvaluationsIn("running"))
  /\ {queue[k] : k \in 1..Len(queue)} = EvaluationsIn("queued")
  /\ Len(queue) = Cardinality(EvaluationsIn("queued"))
  /\ Len(queue) > 0 =>
       activeCount = LimiterConcurrency
       /\ Cardinality(EvaluationsIn("running")) = LimiterConcurrency

\* Within a pass the waiting symbols are the tail of the shortlist, and they stand
\* in the queue in shortlist order
WaitingInShortlistOrder ==
  /\ \A p \in Passes : \A i \in 1..Len(evalState[p]), j \in 1..Len(evalState[p]) :
       (i < j /\ evalState[p][i] = "queued") => evalState[p][j] = "queued"
  /\ \A k \in 1..Len(queue), l \in 1..Len(queue) :
       (k < l /\ queue[k][1] = queue[l][1]) => queue[k][2] < queue[l][2]

\* A step in which evaluations settle or start: an evaluation in flight stays in
\* flight or settles; each one that settles, whatever it settles with, gives up its
\* slot, and the slots freed go to the head of the queue
SlotsPassOn ==
  LET settling == EvaluationsIn("running") \ EvaluationsIn("running")'
      starting == EvaluationsIn("running")' \ EvaluationsIn("running")
  IN /\ settling \subseteq EvaluationsIn("settled")'
     /\ EvaluationsIn("settled") \subseteq EvaluationsIn("settled")'
     /\ activeCount' = activeCount - Cardinality(settling) + Cardinality(starting)
     /\ settling # {} =>
          /\ Cardinality(starting) = MinInt(Cardinality(settling), Len(queue))
          /\ starting = {queue[k] : k \in 1..Cardinality(starting)}
          /\ queue' = SubSeq(queue, Cardinality(starting) + 1, Len(queue))

\* C18: the limiter never leaks or idles a slot: an evaluation gives up its slot
\* when it settles, whether with a record, with null or by failing; whenever a
\* shortlisted symbol waits exactly 6 evaluations are in flight; waiting symbols
\* start in shortlist order; and once a pass has answered none of its evaluations
\* is in flight or queued.
C18_NoLeakedOrIdleSlot ==
  /\ [](SlotsMatchEvaluations /\ WaitingInShortlistOrder)
  /\ [](\A p \in Passes :
          pc[p] = "done" => \A i \in 1..Len(evalState[p]) : evalState[p][i] = "settled")
  /\ [][SlotsPassOn]_vars

\* An evaluation that threw has settled and a waiting symbol has taken its slot:
\* six evaluations are in flight and another symbol still waits
C18_Witness ==
  /\ Len(queue) > 0
  /\ activeCount = LimiterConcurrency
  /\ \E pi \in EvaluationsIn("settled") : OwnOutcome(pi[1], pi[2]) = Threw

\* The page has mounted and none of its fetchData calls is under way
Quiescent ==
  /\ mounted
  /\ \A r \in Refreshes : requests[r].at \in {"unsent", "done"}

\* The calls that ran to their end successfully, as positions in finished
Successes == {k \in 1..Len(finished) : finished[k].ok}

\* C19: after any sequence of refreshes (mount, timer, button), overlapping ones
\* with responses in any order included, once no request is in flight loading is
\* false, error is non-null exactly when the refresh that completed last failed,
\* and data is the body of the refresh that last completed successfully (null when
\* none has); a refresh that fails leaves data as it was.
C19_PageShowsLastCompletedRefresh ==
  /\ [](Quiescent =>
          /\ Len(finished) > 0
          /\ loading = FALSE
          /\ (error.j # "null") <=> ~finished[Len(finished)].ok
          /\ IF Successes = {} THEN data.j = "null"
             ELSE LET last == CHOOSE k \in Successes : \A l \in Successes : l <= k
                  IN data = ScanBody(finished[last].id))
  /\ [][(Len(finished') > Len(finished) /\ ~finished'[Len(finished')].ok)
          => data' = data]_vars

\* Three overlapping refreshes have completed out of order: the second succeeded
\* first, the third failed, the first succeeded last; the page shows the first's body
C19_Witness ==
  /\ Quiescent
  /\ Len(finished) = 3
  /\ finished[1] = [id |-> 2, ok |-> TRUE]
  /\ finished[2] = [id |-> 3, ok |-> FALSE]
  /\ finished[3] = [id |-> 1, ok |-> TRUE]
  /\ data = ScanBody(1)
  /\ error.j = "null"

====
